---- MODULE Spec2Model ----
(***************************************************************************)
(* Model of the phu-arp MIDI transformer: ChordNotesTracker (the chord     *)
(* registry), PatternTracker (the voice tracker), ChordPatternCoordinator  *)
(* (processBlock and the transport-stop reaction) and the SyncGlobals      *)
(* transport observer that drives it from PhuArpAudioProcessor.            *)
(***************************************************************************)
EXTENDS Integers, Sequences, FiniteSets, TLC

(***************************************************************************)
(* Bounds of the model.                                                    *)
(***************************************************************************)
\* Largest number of events in one input block.
MaxBlockLen == 2
\* The sample positions input events carry.
SamplePositions == {0, 1}
\* Largest chord registry size a block may leave behind.
MaxChordSize == 2

(***************************************************************************)
(* juce::MidiMessage, reduced to the fields the program reads: the status  *)
(* nibble (type), the channel 1..16, data byte 1 (note) and data byte 2    *)
(* (vel).                                                                  *)
(***************************************************************************)
Null == [type |-> "null"]

Min(a, b) == IF a < b THEN a ELSE b

\* juce::MidiMessage::noteOn(channel, noteNumber, velocity): the note number
\* is masked to seven bits and the velocity limited to 127.
NoteOn(channel, noteNumber, velocity) ==
    [type |-> "on", ch |-> channel, note |-> noteNumber % 128,
     vel |-> Min(velocity % 256, 127)]

\* juce::MidiMessage::noteOff(channel, noteNumber, velocity).
NoteOff(channel, noteNumber, velocity) ==
    [type |-> "off", ch |-> channel, note |-> noteNumber % 128,
     vel |-> Min(velocity % 256, 127)]

\* A controller message: neither note-on nor note-off.
Controller(channel, number, value) ==
    [type |-> "cc", ch |-> channel, note |-> number, vel |-> value]

\* juce::MidiMessage::isNoteOn() with returnTrueForVelocity0 = false.
isNoteOn(msg) == msg.type = "on" /\ msg.vel # 0

\* Mutant: only an explicit note-off counts as one.
isNoteOffExplicitOnly(msg) == msg.type = "off"

\* juce::MidiMessage::isNoteOff() with returnTrueForNoteOnVelocity0 = true.
isNoteOff(msg) == msg.type = "off" \/ (msg.type = "on" /\ msg.vel = 0)

isForChannel(msg, channel) == msg.ch = channel

TimedEvent(msg, pos) == [message |-> msg, samplePosition |-> pos]

PlayingNote(msg, chordIdx, octaveOffsetSemitones, rhythmOwnerNote) ==
    [message |-> msg, originalChordIndex |-> chordIdx,
     octaveOffset |-> octaveOffsetSemitones, ownerRhythmNote |-> rhythmOwnerNote]

(***************************************************************************)
(* Default configuration of the coordinator.                               *)
(***************************************************************************)
defaultChordInputChannel == 1
defaultRhythmInputChannel == 16
defaultOutputChannel == 2
defaultRhythmRootNote == 24

VARIABLES
    chordNotes,            \* ChordNotesTracker::chordNotes
    playingNotes,          \* PatternTracker::playingNotes
    passThroughOtherMidi,  \* coordinator configuration
    rhythmRootNote,
    chordInputChannel,
    rhythmInputChannel,
    outputChannel,
    isPlaying,             \* SyncGlobals::isPlaying
    ledger,                \* the output note-ons emitted and not yet stopped, by rhythm key
    hostBlock,             \* the last host block: what the host reported, the calls made
    observedCall,          \* the call under observation: its buffers before and after
    editor,                \* EditorLogger::editor, as whether an editor is attached
    audioThreadId,         \* EditorLogger::audioThreadId
    asyncUpdateRequested,  \* EditorLogger::asyncUpdateRequested
    updatePosted,          \* juce::AsyncUpdater: an update is posted and not yet called back
    rtFifo,                \* the messages in the slots of rtFifo that are ready to read
    rtDroppedMessages,     \* EditorLogger::rtDroppedMessages
    pendingMessages,       \* EditorLogger::pendingMessages
    nonRealtimeLock,       \* the thread that holds nonRealtimeLock
    editorLog,             \* the lines passed to PhuArpAudioProcessorEditor::addLogMessage
    pc,                    \* where each thread is in the logger's code
    handlerLocal,          \* handleAsyncUpdate's locals: ready and messages
    logged,                \* how many messages logMessage has taken so far
    discarded              \* the messages pushRealtime discarded

loggerVars ==
    <<editor, audioThreadId, asyncUpdateRequested, updatePosted, rtFifo,
      rtDroppedMessages, pendingMessages, nonRealtimeLock, editorLog, pc,
      handlerLocal, logged, discarded>>

vars == <<chordNotes, playingNotes, passThroughOtherMidi, rhythmRootNote,
          chordInputChannel, rhythmInputChannel, outputChannel, isPlaying,
          ledger, hostBlock, observedCall, loggerVars>>

(***************************************************************************)
(* ChordNotesTracker                                                       *)
(***************************************************************************)
getChordSize(chord) == Len(chord)

\* Mutant: an index beyond the chord wraps around the chord notes.
getChordNoteWrapped(chord, chordIndex) ==
    IF chordIndex < 0 \/ Len(chord) = 0 THEN Null
    ELSE chord[(chordIndex % Len(chord)) + 1]

\* Mutant: an index beyond the chord gives the highest chord note.
getChordNoteClamped(chord, chordIndex) ==
    IF chordIndex < 0 \/ Len(chord) = 0 THEN Null
    ELSE IF chordIndex >= Len(chord) THEN chord[Len(chord)]
    ELSE chord[chordIndex + 1]

getChordNoteByIndex(chord, chordIndex) ==
    IF chordIndex < 0 \/ chordIndex >= Len(chord) THEN Null
    ELSE chord[chordIndex + 1]

IsSortedByNote(s) ==
    \A i \in 1..Len(s) : \A j \in 1..Len(s) : i < j => s[i].note <= s[j].note

\* Mutant: the new note stays where push_back put it.
UnsortedOutcome(s) == {s}

\* std::sort by note number: the result is sorted, and the relative order of
\* notes with equal note numbers is unspecified, so every sorted arrangement
\* is a possible outcome.
SortByNoteOutcomes(s) ==
    { t \in { [i \in 1..Len(s) |-> s[p[i]]] : p \in Permutations(1..Len(s)) } :
        IsSortedByNote(t) }

\* Mutant: a pitch the chord holds gets the new velocity and no second note.
insertChordNoteOncePerPitch(chord, noteNumber, velocity, channel) ==
    IF \E i \in 1..Len(chord) : chord[i].note = noteNumber % 128
    THEN { [i \in 1..Len(chord) |->
              IF chord[i].note = noteNumber % 128
              THEN NoteOn(channel, noteNumber, velocity) ELSE chord[i]] }
    ELSE SortByNoteOutcomes(Append(chord, NoteOn(channel, noteNumber, velocity)))

\* The set of registries insertChordNote can leave behind.
insertChordNote(chord, noteNumber, velocity, channel) ==
    SortByNoteOutcomes(Append(chord, NoteOn(channel, noteNumber, velocity)))

\* removeChordNote's return value: whether a note of that number was found.
removeChordNoteFound(chord, noteNumber) ==
    \E i \in 1..Len(chord) : chord[i].note = noteNumber

\* Mutant: every note of that number is erased.
removeChordNoteAll(chord, noteNumber) ==
    LET Other(m) == m.note # noteNumber
    IN  SelectSeq(chord, Other)

\* std::find_if from the front, then erase of that one element.
removeChordNote(chord, noteNumber) ==
    IF \E i \in 1..Len(chord) : chord[i].note = noteNumber
    THEN LET k == CHOOSE i \in 1..Len(chord) :
                     /\ chord[i].note = noteNumber
                     /\ \A j \in 1..(i - 1) : chord[j].note # noteNumber
         IN  [i \in 1..(Len(chord) - 1) |-> IF i < k THEN chord[i] ELSE chord[i + 1]]
    ELSE chord

clearChord == <<>>

(***************************************************************************)
(* PatternTracker                                                          *)
(***************************************************************************)
\* C++ integer remainder: truncates toward zero, sign of the dividend.
CRem(a, b) == IF a >= 0 THEN a % b ELSE -((-a) % b)

\* Mutant: a negative remainder is returned as it is.
computeChordIndexUnnormalised(rhythmNote, rootNote) ==
    CRem(rhythmNote - rootNote, 12)

computeChordIndex(rhythmNote, rootNote) ==
    LET relativeNoteIndex == rhythmNote - rootNote
        mod == CRem(relativeNoteIndex, 12)
    IN  IF mod < 0 THEN mod + 12 ELSE mod

\* Mutant: no octave offset below the root.
computeOctaveOffsetClamped(rhythmNote, rootNote) ==
    LET relativeNoteIndex == rhythmNote - rootNote
    IN  IF relativeNoteIndex < 0 THEN 0 ELSE (relativeNoteIndex \div 12) * 12

\* Mutant: integer division, which truncates toward zero.
computeOctaveOffsetTruncating(rhythmNote, rootNote) ==
    LET relativeNoteIndex == rhythmNote - rootNote
    IN  relativeNoteIndex - CRem(relativeNoteIndex, 12)

\* std::floor(relativeNoteIndex / 12.0) * 12
computeOctaveOffset(rhythmNote, rootNote) ==
    LET relativeNoteIndex == rhythmNote - rootNote
    IN  (relativeNoteIndex \div 12) * 12

startPlayingRhythmOwnedNote(playing, rhythmNoteNumber, actualNote, velocity, channel, chordIndex, octaveOffset) ==
    Append(playing,
           PlayingNote(NoteOn(channel, actualNote, velocity), chordIndex,
                       octaveOffset, rhythmNoteNumber))

\* Mutant: only the first note of the rhythm key is returned.
stoppedFirstOwnedOnly(playing, rhythmNoteNumber) ==
    LET Owned(n) == n.ownerRhythmNote = rhythmNoteNumber
        owned == SelectSeq(playing, Owned)
    IN  IF owned = <<>> THEN <<>> ELSE <<Head(owned)>>

\* stopPlayingNotesForRhythmOwner: the notes it returns ...
stoppedForRhythmOwner(playing, rhythmNoteNumber) ==
    LET Owned(n) == n.ownerRhythmNote = rhythmNoteNumber
    IN  SelectSeq(playing, Owned)

\* Mutant: the stopped notes are returned but not erased from the tracker.
remainingKeepsStopped(playing, rhythmNoteNumber) == playing

\* Mutant: only the first note of the rhythm key is erased.
remainingDropsFirstOwned(playing, rhythmNoteNumber) ==
    IF \E i \in 1..Len(playing) : playing[i].ownerRhythmNote = rhythmNoteNumber
    THEN LET k == CHOOSE i \in 1..Len(playing) :
                     /\ playing[i].ownerRhythmNote = rhythmNoteNumber
                     /\ \A j \in 1..(i - 1) :
                           playing[j].ownerRhythmNote # rhythmNoteNumber
         IN  SubSeq(playing, 1, k - 1) \o SubSeq(playing, k + 1, Len(playing))
    ELSE playing

\* ... and the notes it leaves in the tracker.
remainingForRhythmOwner(playing, rhythmNoteNumber) ==
    LET NotOwned(n) == n.ownerRhythmNote # rhythmNoteNumber
    IN  SelectSeq(playing, NotOwned)

stopAllPlayingNotes == <<>>

\* Mutant: the note-offs carry velocity 0.
noteOffsWithoutVelocity(playing, channel) ==
    [i \in 1..Len(playing) |-> NoteOff(channel, playing[i].message.note, 0)]

getAllPlayingNotesAsNoteOffs(playing, channel) ==
    [i \in 1..Len(playing) |->
        NoteOff(channel, playing[i].message.note, playing[i].message.vel)]

(***************************************************************************)
(* ChordPatternCoordinator::processBlock                                   *)
(***************************************************************************)
isNoteOffLike(msg) == isNoteOff(msg) \/ (isNoteOn(msg) /\ msg.vel = 0)

\* Mutant: a rhythm note-on has the priority of the chord updates.
phasePriorityTriggerWithChord(msg) ==
    IF msg.ch = rhythmInputChannel /\ isNoteOffLike(msg) THEN 0
    ELSE IF msg.ch = rhythmInputChannel /\ isNoteOn(msg) THEN 1
    ELSE IF msg.ch = chordInputChannel /\ (isNoteOn(msg) \/ isNoteOffLike(msg)) THEN 1
    ELSE 3

phasePriority(msg) ==
    IF msg.ch = rhythmInputChannel /\ isNoteOffLike(msg) THEN 0
    ELSE IF msg.ch = rhythmInputChannel /\ isNoteOn(msg) THEN 2
    ELSE IF msg.ch = chordInputChannel /\ (isNoteOn(msg) \/ isNoteOffLike(msg)) THEN 1
    ELSE 3

\* Mutant: the comparator looks at the sample position only.
EventLessPositionOnly(a, b) == a.samplePosition < b.samplePosition

\* The comparator handed to std::stable_sort.
EventLess(a, b) ==
    IF a.samplePosition # b.samplePosition
    THEN a.samplePosition < b.samplePosition
    ELSE phasePriority(a.message) < phasePriority(b.message)

\* Mutant: e goes in front of the elements that are not smaller than it, as
\* a sort that is not stable may do.
InsertInFrontOfEqual(sorted, e) ==
    LET k == IF \E i \in 1..Len(sorted) : ~EventLess(sorted[i], e)
             THEN CHOOSE i \in 1..Len(sorted) :
                      /\ ~EventLess(sorted[i], e)
                      /\ \A j \in 1..(i - 1) : EventLess(sorted[j], e)
             ELSE Len(sorted) + 1
    IN  SubSeq(sorted, 1, k - 1) \o <<e>> \o SubSeq(sorted, k, Len(sorted))

\* Put e behind every element that is not greater than it.
InsertStable(sorted, e) ==
    LET k == IF \E i \in 1..Len(sorted) : EventLess(e, sorted[i])
             THEN CHOOSE i \in 1..Len(sorted) :
                      /\ EventLess(e, sorted[i])
                      /\ \A j \in 1..(i - 1) : ~EventLess(e, sorted[j])
             ELSE Len(sorted) + 1
    IN  SubSeq(sorted, 1, k - 1) \o <<e>> \o SubSeq(sorted, k, Len(sorted))

RECURSIVE StableSortFrom(_, _)
StableSortFrom(sorted, rest) ==
    IF rest = <<>> THEN sorted
    ELSE StableSortFrom(InsertStable(sorted, Head(rest)), Tail(rest))

\* Mutant: the working list is processed in arrival order.
UnsortedEvents(events) == events

\* std::stable_sort(tempEventBuffer, EventLess)
StableSortEvents(events) == StableSortFrom(<<>>, events)

\* The state one event is applied to: the registry, the tracker, the
\* generated events, and the record of what each applied event did.
BlockState(chord, playing, out, log, led) ==
    [chord |-> chord, playing |-> playing, out |-> out, log |-> log, ledger |-> led]

LogEntry(evt, st, after, emitted) ==
    [evt |-> evt, chordBefore |-> st.chord, playingBefore |-> st.playing,
     ledgerBefore |-> st.ledger, emitted |-> emitted,
     chordAfter |-> after.chord, playingAfter |-> after.playing]

\* Mutant: the note-off carries the rhythm key instead of the pitch of the
\* note that was turned on.
NoteOffsForOwnerKey(stoppedNotes, samplePosition) ==
    [i \in 1..Len(stoppedNotes) |->
        TimedEvent(NoteOff(outputChannel, stoppedNotes[i].ownerRhythmNote,
                           stoppedNotes[i].message.vel),
                   samplePosition)]

\* The note-offs stopRhythmOwnedNotes emits for the notes it stopped.
NoteOffsFor(stoppedNotes, samplePosition) ==
    [i \in 1..Len(stoppedNotes) |->
        TimedEvent(NoteOff(outputChannel, stoppedNotes[i].message.note,
                           stoppedNotes[i].message.vel),
                   samplePosition)]

\* Mutant: the note-off is recomputed from the chord as it is at note-off
\* time instead of taken from the note that was turned on.
stopRecomputedFromChord(st, samplePosition, rhythmNoteNumber) ==
    LET stoppedNotes == stoppedForRhythmOwner(st.playing, rhythmNoteNumber)
        chordNote == getChordNoteByIndex(
                         st.chord, computeChordIndex(rhythmNoteNumber, rhythmRootNote))
        offs == IF chordNote = Null THEN <<>>
                ELSE [i \in 1..Len(stoppedNotes) |->
                        TimedEvent(NoteOff(outputChannel,
                                           chordNote.note
                                             + computeOctaveOffset(rhythmNoteNumber,
                                                                   rhythmRootNote),
                                           chordNote.vel),
                                   samplePosition)]
    IN  [st EXCEPT
            !.playing = remainingForRhythmOwner(st.playing, rhythmNoteNumber),
            !.out = st.out \o offs,
            !.ledger = { l \in st.ledger : l.owner # rhythmNoteNumber }]

\* Mutant: a release also takes the key's chord note out of the chord.
stopAlsoRemovesChordNote(st, samplePosition, rhythmNoteNumber) ==
    LET stoppedNotes == stoppedForRhythmOwner(st.playing, rhythmNoteNumber)
        chordNote == getChordNoteByIndex(
                         st.chord, computeChordIndex(rhythmNoteNumber, rhythmRootNote))
    IN  [st EXCEPT
            !.chord = IF chordNote = Null THEN st.chord
                      ELSE removeChordNote(st.chord, chordNote.note),
            !.playing = remainingForRhythmOwner(st.playing, rhythmNoteNumber),
            !.out = st.out \o NoteOffsFor(stoppedNotes, samplePosition),
            !.ledger = { l \in st.ledger : l.owner # rhythmNoteNumber }]

\* Mutant: a release that finds no note of its key sends a note-off for the
\* pitch the key maps to.
stopAlwaysEmits(st, samplePosition, rhythmNoteNumber) ==
    LET stoppedNotes == stoppedForRhythmOwner(st.playing, rhythmNoteNumber)
        chordNote == getChordNoteByIndex(
                         st.chord, computeChordIndex(rhythmNoteNumber, rhythmRootNote))
        noteOffs == IF stoppedNotes = <<>> /\ chordNote # Null
                    THEN <<TimedEvent(NoteOff(outputChannel, chordNote.note, 0),
                                      samplePosition)>>
                    ELSE NoteOffsFor(stoppedNotes, samplePosition)
    IN  [st EXCEPT
            !.playing = remainingForRhythmOwner(st.playing, rhythmNoteNumber),
            !.out = st.out \o noteOffs,
            !.ledger = { l \in st.ledger : l.owner # rhythmNoteNumber }]

stopRhythmOwnedNotes(st, samplePosition, rhythmNoteNumber) ==
    LET stoppedNotes == stoppedForRhythmOwner(st.playing, rhythmNoteNumber)
    IN  [st EXCEPT
            !.playing = remainingForRhythmOwner(st.playing, rhythmNoteNumber),
            !.out = st.out \o NoteOffsFor(stoppedNotes, samplePosition),
            !.ledger = { l \in st.ledger : l.owner # rhythmNoteNumber }]

\* Mutant: the note-on is moved one sample earlier to come before what
\* follows it (the timing hack of the earlier implementation).
startShiftedEarlier(st, samplePosition, rhythmNoteNumber) ==
    LET s1 == stopRhythmOwnedNotes(st, samplePosition, rhythmNoteNumber)
        chordIndex == computeChordIndex(rhythmNoteNumber, rhythmRootNote)
        octaveOffset == computeOctaveOffset(rhythmNoteNumber, rhythmRootNote)
        chordNote == getChordNoteByIndex(s1.chord, chordIndex)
        shifted == IF samplePosition > 0 THEN samplePosition - 1 ELSE 0
    IN  IF chordNote = Null THEN s1
        ELSE LET actualNote == chordNote.note + octaveOffset
                 velocity == chordNote.vel % 256
                 noteOnMsg == NoteOn(outputChannel, actualNote, velocity)
             IN  [s1 EXCEPT
                     !.playing = startPlayingRhythmOwnedNote(
                                     s1.playing, rhythmNoteNumber, actualNote,
                                     velocity, outputChannel, chordIndex,
                                     octaveOffset),
                     !.out = Append(s1.out, TimedEvent(noteOnMsg, shifted)),
                     !.ledger = s1.ledger \cup
                                  {[owner |-> rhythmNoteNumber, on |-> noteOnMsg]}]

\* Mutant: a note-on that does not resolve leaves the key's note playing.
startKeepsUnresolved(st, samplePosition, rhythmNoteNumber) ==
    LET chordIndex == computeChordIndex(rhythmNoteNumber, rhythmRootNote)
        octaveOffset == computeOctaveOffset(rhythmNoteNumber, rhythmRootNote)
        chordNote == getChordNoteByIndex(st.chord, chordIndex)
    IN  IF chordNote = Null THEN st
        ELSE LET s1 == stopRhythmOwnedNotes(st, samplePosition, rhythmNoteNumber)
                 actualNote == chordNote.note + octaveOffset
                 velocity == chordNote.vel % 256
                 noteOnMsg == NoteOn(outputChannel, actualNote, velocity)
             IN  [s1 EXCEPT
                     !.playing = startPlayingRhythmOwnedNote(
                                     s1.playing, rhythmNoteNumber, actualNote,
                                     velocity, outputChannel, chordIndex,
                                     octaveOffset),
                     !.out = Append(s1.out, TimedEvent(noteOnMsg, samplePosition)),
                     !.ledger = s1.ledger \cup
                                  {[owner |-> rhythmNoteNumber, on |-> noteOnMsg]}]

\* Mutant: a retrigger does not stop the notes the rhythm key already owns.
startWithoutStop(st, samplePosition, rhythmNoteNumber) ==
    LET chordIndex == computeChordIndex(rhythmNoteNumber, rhythmRootNote)
        octaveOffset == computeOctaveOffset(rhythmNoteNumber, rhythmRootNote)
        chordNote == getChordNoteByIndex(st.chord, chordIndex)
    IN  IF chordNote = Null THEN st
        ELSE LET actualNote == chordNote.note + octaveOffset
                 velocity == chordNote.vel % 256
                 noteOnMsg == NoteOn(outputChannel, actualNote, velocity)
             IN  [st EXCEPT
                     !.playing = startPlayingRhythmOwnedNote(
                                     st.playing, rhythmNoteNumber, actualNote,
                                     velocity, outputChannel, chordIndex,
                                     octaveOffset),
                     !.out = Append(st.out, TimedEvent(noteOnMsg, samplePosition)),
                     !.ledger = st.ledger \cup
                                  {[owner |-> rhythmNoteNumber, on |-> noteOnMsg]}]

startRhythmOwnedNote(st, samplePosition, rhythmNoteNumber) ==
    LET s1 == stopRhythmOwnedNotes(st, samplePosition, rhythmNoteNumber)
        chordIndex == computeChordIndex(rhythmNoteNumber, rhythmRootNote)
        octaveOffset == computeOctaveOffset(rhythmNoteNumber, rhythmRootNote)
        chordNote == getChordNoteByIndex(s1.chord, chordIndex)
    IN  IF chordNote = Null THEN s1
        ELSE LET actualNote == chordNote.note + octaveOffset
                 velocity == chordNote.vel % 256
                 noteOnMsg == NoteOn(outputChannel, actualNote, velocity)
             IN  [s1 EXCEPT
                     !.playing = startPlayingRhythmOwnedNote(
                                     s1.playing, rhythmNoteNumber, actualNote,
                                     velocity, outputChannel, chordIndex,
                                     octaveOffset),
                     !.out = Append(s1.out, TimedEvent(noteOnMsg, samplePosition)),
                     !.ledger = s1.ledger \cup
                                  {[owner |-> rhythmNoteNumber, on |-> noteOnMsg]}]

\* The events a step appended to the generated events.
EmittedBy(before, after) == SubSeq(after.out, Len(before.out) + 1, Len(after.out))

\* Mutant: after every event the playing notes follow the chord: each takes
\* the pitch the chord now has at its chord index.
WithLogRetuned(st, evt, after) ==
    LET Retuned(v) ==
            LET chordNote == getChordNoteByIndex(after.chord, v.originalChordIndex)
            IN  IF chordNote = Null THEN v
                ELSE [v EXCEPT !.message.note = (chordNote.note + v.octaveOffset) % 128]
        retuned == [after EXCEPT
                       !.playing = [i \in 1..Len(after.playing) |->
                                       Retuned(after.playing[i])]]
    IN  [retuned EXCEPT
            !.log = Append(st.log, LogEntry(evt, st, retuned, EmittedBy(st, after)))]

WithLog(st, evt, after) ==
    [after EXCEPT
        !.log = Append(st.log, LogEntry(evt, st, after, EmittedBy(st, after)))]

\* One iteration of the loop over the sorted events: the set of states it
\* can leave (more than one only through the unspecified order of std::sort).
ApplyEvent(st, evt) ==
    LET msg == evt.message
    IN  IF msg.ch = rhythmInputChannel
        THEN IF isNoteOffLike(msg)
             THEN {WithLog(st, evt,
                           stopRhythmOwnedNotes(st, evt.samplePosition, msg.note))}
             ELSE IF isNoteOn(msg)
             THEN {WithLog(st, evt,
                           startRhythmOwnedNote(st, evt.samplePosition, msg.note))}
             ELSE {WithLog(st, evt, st)}
        ELSE IF msg.ch = chordInputChannel
        THEN IF isNoteOn(msg) /\ msg.vel > 0
             THEN { WithLog(st, evt, [st EXCEPT !.chord = c]) :
                      c \in insertChordNote(st.chord, msg.note, msg.vel, msg.ch) }
             ELSE IF isNoteOffLike(msg)
             THEN {WithLog(st, evt,
                           [st EXCEPT !.chord = removeChordNote(st.chord, msg.note)])}
             ELSE {WithLog(st, evt, st)}
        ELSE {WithLog(st, evt, st)}

RECURSIVE ApplyEvents(_, _)
ApplyEvents(states, events) ==
    IF events = <<>> THEN states
    ELSE ApplyEvents(UNION { ApplyEvent(st, Head(events)) : st \in states },
                     Tail(events))

\* Mutant: the event goes in front of the events of its own sample position.
addEventInFront(buffer, msg, samplePosition) ==
    LET k == IF \E i \in 1..Len(buffer) : buffer[i].samplePosition >= samplePosition
             THEN CHOOSE i \in 1..Len(buffer) :
                      /\ buffer[i].samplePosition >= samplePosition
                      /\ \A j \in 1..(i - 1) : buffer[j].samplePosition < samplePosition
             ELSE Len(buffer) + 1
    IN  SubSeq(buffer, 1, k - 1) \o <<TimedEvent(msg, samplePosition)>>
            \o SubSeq(buffer, k, Len(buffer))

\* juce::MidiBuffer::addEvent: the event goes behind every event whose sample
\* position is not greater than its own.
addEvent(buffer, msg, samplePosition) ==
    LET k == IF \E i \in 1..Len(buffer) : buffer[i].samplePosition > samplePosition
             THEN CHOOSE i \in 1..Len(buffer) :
                      /\ buffer[i].samplePosition > samplePosition
                      /\ \A j \in 1..(i - 1) : buffer[j].samplePosition <= samplePosition
             ELSE Len(buffer) + 1
    IN  SubSeq(buffer, 1, k - 1) \o <<TimedEvent(msg, samplePosition)>>
            \o SubSeq(buffer, k, Len(buffer))

RECURSIVE addEvents(_, _)
addEvents(buffer, events) ==
    IF events = <<>> THEN buffer
    ELSE addEvents(addEvent(buffer, Head(events).message, Head(events).samplePosition),
                   Tail(events))

isConsumed(msg) ==
    \/ isForChannel(msg, chordInputChannel)
    \/ isForChannel(msg, rhythmInputChannel)
    \/ isForChannel(msg, outputChannel)

\* Mutant: the messages of other channels are kept whatever the setting.
WriteBackKeepsOthers(input, generated, passThrough) ==
    LET NotConsumed(e) == ~isConsumed(e.message)
    IN  addEvents(addEvents(<<>>, SelectSeq(input, NotConsumed)), generated)

\* Mutant: pass-through also keeps the input of the output channel.
WriteBackKeepsOutputChannel(input, generated, passThrough) ==
    IF passThrough
    THEN LET Kept(e) == /\ ~isForChannel(e.message, chordInputChannel)
                        /\ ~isForChannel(e.message, rhythmInputChannel)
         IN  addEvents(addEvents(<<>>, SelectSeq(input, Kept)), generated)
    ELSE addEvents(<<>>, generated)

\* Step 5 of processBlock: what is written back to the MIDI buffer.
WriteBack(input, generated, passThrough) ==
    IF passThrough
    THEN LET NotConsumed(e) == ~isConsumed(e.message)
         IN  addEvents(addEvents(<<>>, SelectSeq(input, NotConsumed)), generated)
    ELSE addEvents(<<>>, generated)

\* processBlock as a whole: the set of outcomes for one input buffer.
ProcessBlockOutcomes(chord, playing, led, input, passThrough) ==
    LET sorted == StableSortEvents(input)
        finals == ApplyEvents({BlockState(chord, playing, <<>>, <<>>, led)}, sorted)
    IN  { [chord |-> st.chord, playing |-> st.playing, ledger |-> st.ledger,
           temp |-> sorted, out |-> st.out, log |-> st.log,
           buffer |-> WriteBack(input, st.out, passThrough)] : st \in finals }

(***************************************************************************)
(* ChordPatternCoordinator::onIsPlayingChanged                             *)
(***************************************************************************)
IsStopTransition(oldValue, newValue) == oldValue = TRUE /\ newValue = FALSE

\* The buffer the reaction leaves: cleared, then one note-off per playing
\* note added at sample position 0.
FlushBuffer(playing) ==
    LET noteOffs == getAllPlayingNotesAsNoteOffs(playing, outputChannel)
    IN  addEvents(<<>>, [i \in 1..Len(noteOffs) |-> TimedEvent(noteOffs[i], 0)])

\* Mutant: the reaction sends the note-offs but keeps the voices.
IsPlayingChangedKeepsVoices(chord, playing, led, buffer, oldValue, newValue, hasBuffer) ==
    IF IsStopTransition(oldValue, newValue)
    THEN [chord |-> clearChord, playing |-> playing, ledger |-> led,
          buffer |-> IF hasBuffer THEN FlushBuffer(playing) ELSE buffer]
    ELSE [chord |-> chord, playing |-> playing, ledger |-> led, buffer |-> buffer]

\* Mutant: the reaction adds the note-offs to the buffer without clearing it.
IsPlayingChangedAppends(chord, playing, led, buffer, oldValue, newValue, hasBuffer) ==
    IF IsStopTransition(oldValue, newValue)
    THEN LET noteOffs == getAllPlayingNotesAsNoteOffs(playing, outputChannel)
         IN  [chord |-> clearChord, playing |-> stopAllPlayingNotes, ledger |-> {},
              buffer |-> IF hasBuffer
                         THEN addEvents(buffer, [i \in 1..Len(noteOffs) |->
                                                    TimedEvent(noteOffs[i], 0)])
                         ELSE buffer]
    ELSE [chord |-> chord, playing |-> playing, ledger |-> led, buffer |-> buffer]

\* Mutant: the reaction flushes the voices but leaves the chord.
IsPlayingChangedKeepsChord(chord, playing, led, buffer, oldValue, newValue, hasBuffer) ==
    IF IsStopTransition(oldValue, newValue)
    THEN [chord |-> chord, playing |-> stopAllPlayingNotes, ledger |-> {},
          buffer |-> IF hasBuffer THEN FlushBuffer(playing) ELSE buffer]
    ELSE [chord |-> chord, playing |-> playing, ledger |-> led, buffer |-> buffer]

IsPlayingChangedOutcome(chord, playing, led, buffer, oldValue, newValue, hasBuffer) ==
    IF IsStopTransition(oldValue, newValue)
    THEN [chord |-> clearChord, playing |-> stopAllPlayingNotes, ledger |-> {},
          buffer |-> IF hasBuffer THEN FlushBuffer(playing) ELSE buffer]
    ELSE [chord |-> chord, playing |-> playing, ledger |-> led, buffer |-> buffer]

(***************************************************************************)
(* The input blocks of the model.                                          *)
(***************************************************************************)
VelocityZeroNoteOn(channel, noteNumber) ==
    [type |-> "on", ch |-> channel, note |-> noteNumber, vel |-> 0]

\* Chord notes 60 and 120; rhythm keys 24 (chord index 0, octave offset 0)
\* and 37 (chord index 1, octave offset 12); one message of another channel.
ChordInputs ==
    { NoteOn(defaultChordInputChannel, 60, 100),
      NoteOn(defaultChordInputChannel, 120, 90),
      NoteOff(defaultChordInputChannel, 60, 0) }

RhythmInputs ==
    { NoteOn(defaultRhythmInputChannel, 24, 70),
      NoteOn(defaultRhythmInputChannel, 37, 70),
      NoteOff(defaultRhythmInputChannel, 24, 0) }

OtherInputs == { NoteOn(5, 60, 100) }

InputMessages == ChordInputs \cup RhythmInputs \cup OtherInputs

TimedOver(messages) ==
    { TimedEvent(m, pos) : m \in messages, pos \in SamplePositions }

BlocksOver(messages, maxLen) ==
    UNION { [1..n -> TimedOver(messages)] : n \in 0..maxLen }

Blocks == BlocksOver(InputMessages, MaxBlockLen)

\* The buffer contents a transport-stop reaction finds.
FlushBlocks ==
    BlocksOver(OtherInputs \cup {NoteOn(defaultRhythmInputChannel, 24, 70)}, 1)

NoHostBlock ==
    [hasPosition |-> FALSE, reported |-> FALSE, lastReported |-> FALSE, calls |-> <<>>]

NoCall == [op |-> "none"]

(***************************************************************************)
(* Initial state: the objects as constructed.                              *)
(***************************************************************************)
(***************************************************************************)
(* EditorLogger.  Three threads use it: the audio thread and one other     *)
(* thread call logMessage, the message thread runs handleAsyncUpdate,      *)
(* setEditor and clearEditor.  Each step below is one access to the        *)
(* logger's shared state.                                                  *)
(***************************************************************************)
AudioThread == "audio"
OtherThread == "other"
MessageThread == "message"
LoggingThreads == {AudioThread, OtherThread}
Threads == LoggingThreads \cup {MessageThread}

\* audioThreadId before markCurrentThreadAsAudioThread; no holder of the lock.
NoThread == "none"

NoHandlerLocal == [ready |-> 0, messages |-> <<>>]

LoggerInit ==
    /\ editor = FALSE
    /\ audioThreadId = NoThread
    /\ asyncUpdateRequested = FALSE
    /\ updatePosted = FALSE
    /\ rtFifo = <<>>
    /\ rtDroppedMessages = 0
    /\ pendingMessages = <<>>
    /\ nonRealtimeLock = NoThread
    /\ editorLog = <<>>
    /\ pc = [t \in Threads |-> "idle"]
    /\ handlerLocal = NoHandlerLocal
    /\ logged = 0
    /\ discarded = {}


Init ==
    /\ chordNotes = <<>>
    /\ playingNotes = <<>>
    /\ passThroughOtherMidi = FALSE
    /\ rhythmRootNote = defaultRhythmRootNote
    /\ chordInputChannel = defaultChordInputChannel
    /\ rhythmInputChannel = defaultRhythmInputChannel
    /\ outputChannel = defaultOutputChannel
    /\ isPlaying = FALSE
    /\ ledger = {}
    /\ hostBlock = NoHostBlock
    /\ observedCall = NoCall
    /\ LoggerInit

configVars == <<passThroughOtherMidi, rhythmRootNote, chordInputChannel,
                rhythmInputChannel, outputChannel>>

\* Largest number of messages logMessage takes in a behaviour.
MaxMessages == 3
\* The number of messages rtFifo holds before pushRealtime finds no free slot.
MaxRealtimeQueued == 1

(***************************************************************************)
(* Observation.  A behaviour is any number of calls followed by at most    *)
(* one observed call.  The observed call keeps its input buffer, its       *)
(* working lists and the buffer it leaves in observedCall, for the         *)
(* properties to read; the calls before it keep only the program state.    *)
(* An observed call ends the behaviour: the program states it leads to are *)
(* those the same call leads to unobserved.                                *)
(***************************************************************************)
ObservedProcessBlock(input, r) ==
    [op |-> "processBlock", input |-> input, passThrough |-> passThroughOtherMidi,
     chordBefore |-> chordNotes, playingBefore |-> playingNotes,
     ledgerBefore |-> ledger,
     tempEventBuffer |-> r.temp, outputEvents |-> r.out, applyLog |-> r.log,
     midiBuffer |-> r.buffer]

ObservedIsPlayingChanged(input, oldValue, newValue, hasBuffer, r) ==
    [op |-> "onIsPlayingChanged", input |-> input, oldValue |-> oldValue,
     newValue |-> newValue, hasBuffer |-> hasBuffer,
     chordBefore |-> chordNotes, playingBefore |-> playingNotes,
     ledgerBefore |-> ledger, midiBuffer |-> r.buffer]

(***************************************************************************)
(* Actions of the coordinator, called directly.                            *)
(***************************************************************************)
ProcessBlockFrom(blocks) ==
    /\ observedCall = NoCall
    /\ \E input \in blocks :
      \E r \in ProcessBlockOutcomes(chordNotes, playingNotes, ledger, input,
                                    passThroughOtherMidi) :
       \E observe \in BOOLEAN :
        /\ Len(r.chord) <= MaxChordSize
        /\ chordNotes' = r.chord
        /\ playingNotes' = r.playing
        /\ ledger' = r.ledger
        /\ observedCall' = IF observe THEN ObservedProcessBlock(input, r) ELSE NoCall
        /\ UNCHANGED <<configVars, isPlaying, hostBlock, loggerVars>>

ProcessBlock == ProcessBlockFrom(Blocks)

OnIsPlayingChanged ==
    /\ observedCall = NoCall
    /\ \E input \in FlushBlocks, oldValue \in BOOLEAN, newValue \in BOOLEAN,
       hasBuffer \in BOOLEAN, observe \in BOOLEAN :
      LET r == IsPlayingChangedOutcome(chordNotes, playingNotes, ledger, input,
                                       oldValue, newValue, hasBuffer)
      IN  /\ chordNotes' = r.chord
          /\ playingNotes' = r.playing
          /\ ledger' = r.ledger
          /\ observedCall' =
                 IF observe
                 THEN ObservedIsPlayingChanged(input, oldValue, newValue, hasBuffer, r)
                 ELSE NoCall
          /\ UNCHANGED <<configVars, isPlaying, hostBlock, loggerVars>>

setPassThroughOtherMidi ==
    /\ observedCall = NoCall
    /\ \E shouldPassThrough \in BOOLEAN :
        /\ passThroughOtherMidi' = shouldPassThrough
        /\ UNCHANGED <<chordNotes, playingNotes, rhythmRootNote, chordInputChannel,
                       rhythmInputChannel, outputChannel, isPlaying, ledger,
                       hostBlock, observedCall, loggerVars>>

Next == ProcessBlock \/ OnIsPlayingChanged

Spec == Init /\ [][Next]_vars

(***************************************************************************)
(* The coordinator with the pass-through switch, over blocks that also     *)
(* carry messages of other channels and of the output channel.             *)
(***************************************************************************)
PassMessages ==
    { NoteOn(defaultChordInputChannel, 60, 100),
      NoteOn(defaultRhythmInputChannel, 24, 70),
      NoteOff(defaultRhythmInputChannel, 24, 0),
      VelocityZeroNoteOn(defaultRhythmInputChannel, 24),
      NoteOff(defaultChordInputChannel, 60, 0),
      VelocityZeroNoteOn(defaultChordInputChannel, 60),
      NoteOn(5, 60, 100),
      Controller(5, 7, 100),
      Controller(defaultChordInputChannel, 7, 100),
      NoteOn(defaultOutputChannel, 60, 100) }

PassBlocks == BlocksOver(PassMessages, MaxBlockLen)

PassProcessBlock == ProcessBlockFrom(PassBlocks)

PassNext == PassProcessBlock \/ setPassThroughOtherMidi \/ OnIsPlayingChanged

PassSpec == Init /\ [][PassNext]_vars

(***************************************************************************)
(* The coordinator with its configuration changed between blocks: the      *)
(* rhythm root note and the output channel.                                *)
(***************************************************************************)
ConfigMessages ==
    { NoteOn(defaultChordInputChannel, 60, 100),
      NoteOn(defaultChordInputChannel, 64, 90),
      NoteOff(defaultChordInputChannel, 60, 0),
      NoteOn(defaultRhythmInputChannel, 24, 70),
      NoteOn(defaultRhythmInputChannel, 25, 70),
      NoteOff(defaultRhythmInputChannel, 24, 0) }

\* Blocks one event shorter than those of the other specifications: here it
\* is the order of blocks and setter calls that matters.
ConfigBlocks ==
    UNION { [1..n -> { TimedEvent(m, 0) : m \in ConfigMessages }] :
              n \in 0..(MaxBlockLen - 1) }

RootNotes == {defaultRhythmRootNote, 25}

OutputChannels == {defaultOutputChannel, 3}

ConfigProcessBlock == ProcessBlockFrom(ConfigBlocks)

setRhythmRootNote ==
    /\ observedCall = NoCall
    /\ \E rootNote \in RootNotes :
        /\ rhythmRootNote' = rootNote
        /\ UNCHANGED <<chordNotes, playingNotes, passThroughOtherMidi,
                       chordInputChannel, rhythmInputChannel, outputChannel,
                       isPlaying, ledger, hostBlock, observedCall, loggerVars>>

setOutputChannel ==
    /\ observedCall = NoCall
    /\ \E channel \in OutputChannels :
        /\ outputChannel' = channel
        /\ UNCHANGED <<chordNotes, playingNotes, passThroughOtherMidi,
                       rhythmRootNote, chordInputChannel, rhythmInputChannel,
                       isPlaying, ledger, hostBlock, observedCall, loggerVars>>

ConfigNext ==
    \/ ConfigProcessBlock
    \/ setRhythmRootNote
    \/ setOutputChannel
    \/ OnIsPlayingChanged

ConfigSpec == Init /\ [][ConfigNext]_vars

(***************************************************************************)
(* ChordNotesTracker and PatternTracker, called directly through their     *)
(* public operations.  observedCall holds the last call: its arguments,    *)
(* what it found and what it returned.                                     *)
(***************************************************************************)
MaxVoices == 3

TrackerChordNotes ==
    { [note |-> 60, vel |-> 100], [note |-> 60, vel |-> 90], [note |-> 64, vel |-> 100] }

TrackerOwners == {24, 25}

TrackerPitches == {60, 64}

ChordIndices == (0 - 1)..(MaxChordSize + 1)

trackerFrame == <<configVars, isPlaying, ledger, hostBlock, loggerVars>>

InsertChordNote ==
    /\ Len(chordNotes) < MaxChordSize
    /\ \E n \in TrackerChordNotes :
        \E chord \in insertChordNote(chordNotes, n.note, n.vel, defaultChordInputChannel) :
          /\ chordNotes' = chord
          /\ observedCall' = [op |-> "insertChordNote", noteNumber |-> n.note,
                              velocity |-> n.vel, chordBefore |-> chordNotes]
    /\ UNCHANGED <<playingNotes, trackerFrame>>

RemoveChordNote ==
    /\ \E n \in TrackerChordNotes :
          /\ chordNotes' = removeChordNote(chordNotes, n.note)
          /\ observedCall' = [op |-> "removeChordNote", noteNumber |-> n.note,
                              chordBefore |-> chordNotes,
                              removed |-> removeChordNoteFound(chordNotes, n.note)]
    /\ UNCHANGED <<playingNotes, trackerFrame>>

ClearChord ==
    /\ chordNotes' = clearChord
    /\ observedCall' = [op |-> "clearChord"]
    /\ UNCHANGED <<playingNotes, trackerFrame>>

GetChordNoteByIndex ==
    /\ \E chordIndex \in ChordIndices :
          observedCall' = [op |-> "getChordNoteByIndex", chordIndex |-> chordIndex,
                           chordBefore |-> chordNotes,
                           result |-> getChordNoteByIndex(chordNotes, chordIndex)]
    /\ UNCHANGED <<chordNotes, playingNotes, trackerFrame>>

StartPlayingRhythmOwnedNote ==
    /\ Len(playingNotes) < MaxVoices
    /\ \E rhythmNoteNumber \in TrackerOwners, actualNote \in TrackerPitches :
          playingNotes' = startPlayingRhythmOwnedNote(
                              playingNotes, rhythmNoteNumber, actualNote, 100,
                              defaultOutputChannel, 0, 0)
    /\ observedCall' = [op |-> "startPlayingRhythmOwnedNote"]
    /\ UNCHANGED <<chordNotes, trackerFrame>>

\* Whether the last call was stopPlayingNotesForRhythmOwner for this key.
JustStopped(rhythmNoteNumber) ==
    /\ observedCall.op = "stopPlayingNotesForRhythmOwner"
    /\ observedCall.rhythmNoteNumber = rhythmNoteNumber

StopPlayingNotesForRhythmOwner ==
    /\ \E rhythmNoteNumber \in TrackerOwners :
          /\ playingNotes' = remainingForRhythmOwner(playingNotes, rhythmNoteNumber)
          /\ observedCall' =
                [op |-> "stopPlayingNotesForRhythmOwner",
                 rhythmNoteNumber |-> rhythmNoteNumber,
                 playingBefore |-> playingNotes,
                 stopped |-> stoppedForRhythmOwner(playingNotes, rhythmNoteNumber),
                 repeated |-> JustStopped(rhythmNoteNumber),
                 stoppedBefore |-> IF JustStopped(rhythmNoteNumber)
                                   THEN Len(observedCall.stopped) ELSE 0]
    /\ UNCHANGED <<chordNotes, trackerFrame>>

StopAllPlayingNotes ==
    /\ playingNotes' = stopAllPlayingNotes
    /\ observedCall' = [op |-> "stopAllPlayingNotes"]
    /\ UNCHANGED <<chordNotes, trackerFrame>>

NoteOffChannels == {defaultOutputChannel, 3}

GetAllPlayingNotesAsNoteOffs ==
    /\ \E channel \in NoteOffChannels :
          observedCall' = [op |-> "getAllPlayingNotesAsNoteOffs", channel |-> channel,
                           playingBefore |-> playingNotes,
                           result |-> getAllPlayingNotesAsNoteOffs(playingNotes, channel)]
    /\ UNCHANGED <<chordNotes, playingNotes, trackerFrame>>

TrackerNext ==
    \/ InsertChordNote
    \/ RemoveChordNote
    \/ ClearChord
    \/ GetChordNoteByIndex
    \/ StartPlayingRhythmOwnedNote
    \/ StopPlayingNotesForRhythmOwner
    \/ StopAllPlayingNotes
    \/ GetAllPlayingNotesAsNoteOffs

TrackerSpec == Init /\ [][TrackerNext]_vars

(***************************************************************************)
(* PatternTracker::computeChordIndex and computeOctaveOffset, called with  *)
(* a rhythm pitch and the configured root pitch.                           *)
(***************************************************************************)
MidiPitches == 0..127

MappingInit ==
    /\ chordNotes = <<>>
    /\ playingNotes = <<>>
    /\ passThroughOtherMidi = FALSE
    /\ rhythmRootNote \in MidiPitches
    /\ chordInputChannel = defaultChordInputChannel
    /\ rhythmInputChannel = defaultRhythmInputChannel
    /\ outputChannel = defaultOutputChannel
    /\ isPlaying = FALSE
    /\ ledger = {}
    /\ hostBlock = NoHostBlock
    /\ observedCall = NoCall
    /\ LoggerInit

mappingFrame ==
    <<chordNotes, playingNotes, configVars, isPlaying, ledger, hostBlock, loggerVars>>

ComputeChordIndex ==
    /\ observedCall = NoCall
    /\ \E rhythmNote \in MidiPitches :
          observedCall' = [op |-> "computeChordIndex", rhythmNote |-> rhythmNote,
                           rootNote |-> rhythmRootNote,
                           result |-> computeChordIndex(rhythmNote, rhythmRootNote)]
    /\ UNCHANGED mappingFrame

ComputeOctaveOffset ==
    /\ observedCall = NoCall
    /\ \E rhythmNote \in MidiPitches :
          observedCall' = [op |-> "computeOctaveOffset", rhythmNote |-> rhythmNote,
                           rootNote |-> rhythmRootNote,
                           result |-> computeOctaveOffset(rhythmNote, rhythmRootNote)]
    /\ UNCHANGED mappingFrame

MappingNext == ComputeChordIndex \/ ComputeOctaveOffset

MappingSpec == MappingInit /\ [][MappingNext]_vars

(***************************************************************************)
(* SyncGlobals::updateDAWGlobals and PhuArpAudioProcessor::processBlock    *)
(***************************************************************************)
\* The listeners registered with SyncGlobals: the processor's constructor
\* adds the coordinator, and addEventListener keeps a listener once.
listeners == <<"coordinator">>

\* Whether updateDAWGlobals fires an IsPlayingEvent for this block.
firesIsPlayingChanged(hasValue, newIsPlaying, playingNow) ==
    hasValue /\ newIsPlaying # playingNow

\* Mutant: the new playing state is not stored.
isPlayingNotStored(hasValue, newIsPlaying, playingNow) == playingNow

\* SyncGlobals::isPlaying after updateDAWGlobals.
isPlayingAfterUpdate(hasValue, newIsPlaying, playingNow) ==
    IF firesIsPlayingChanged(hasValue, newIsPlaying, playingNow)
    THEN newIsPlaying ELSE playingNow

\* The old value the fired event carries.
eventOldValue(playingNow) == playingNow

\* fireIsPlayingChanged: the event is handed to every listener in turn; the
\* coordinator's handler gets the block's buffer through the event context.
RECURSIVE fireIsPlayingChanged(_, _, _, _)
fireIsPlayingChanged(st, oldValue, newValue, i) ==
    IF i > Len(listeners) THEN st
    ELSE LET r == IsPlayingChangedOutcome(st.chord, st.playing, st.ledger,
                                          st.buffer, oldValue, newValue, TRUE)
         IN  fireIsPlayingChanged(
                 [chord |-> r.chord, playing |-> r.playing, ledger |-> r.ledger,
                  buffer |-> r.buffer,
                  calls |-> Append(st.calls,
                                   [call |-> "onIsPlayingChanged",
                                    oldValue |-> oldValue, newValue |-> newValue])],
                 oldValue, newValue, i + 1)

\* updateDAWGlobals: the coordinator state and buffer it leaves.
updateDAWGlobals(st, hasValue, newIsPlaying, playingNow) ==
    IF firesIsPlayingChanged(hasValue, newIsPlaying, playingNow)
    THEN fireIsPlayingChanged(st, eventOldValue(playingNow), newIsPlaying, 1)
    ELSE st

\* Mutant: the block is handed to the coordinator whatever the transport does.
callsCoordinatorAlways(playingAfterUpdate) == TRUE

\* Whether the processor hands the block to the coordinator.
callsCoordinator(playingAfterUpdate) == playingAfterUpdate

\* PhuArpAudioProcessor::processBlock: the outcomes of one host block.
HostBlockOutcomes(input, hasValue, newIsPlaying) ==
    LET st0 == [chord |-> chordNotes, playing |-> playingNotes, ledger |-> ledger,
                buffer |-> input, calls |-> <<>>]
        st1 == updateDAWGlobals(st0, hasValue, newIsPlaying, isPlaying)
        playingAfter == isPlayingAfterUpdate(hasValue, newIsPlaying, isPlaying)
    IN  IF callsCoordinator(playingAfter)
        THEN { [chord |-> r.chord, playing |-> r.playing, ledger |-> r.ledger,
                buffer |-> r.buffer, isPlaying |-> playingAfter,
                calls |-> Append(st1.calls, [call |-> "processBlock"])] :
               r \in ProcessBlockOutcomes(st1.chord, st1.playing, st1.ledger,
                                          st1.buffer, passThroughOtherMidi) }
        ELSE { [chord |-> st1.chord, playing |-> st1.playing, ledger |-> st1.ledger,
                buffer |-> st1.buffer, isPlaying |-> playingAfter,
                calls |-> st1.calls] }

\* What the host reported last, before the block hostBlock describes ran.
LastReported == IF hostBlock.hasPosition THEN hostBlock.reported
                ELSE hostBlock.lastReported

PluginMessages ==
    { NoteOn(defaultChordInputChannel, 60, 100),
      NoteOn(defaultRhythmInputChannel, 24, 70),
      NoteOn(defaultRhythmInputChannel, 37, 70),
      NoteOff(defaultRhythmInputChannel, 24, 0),
      NoteOn(5, 60, 100) }

PluginBlocks == BlocksOver(PluginMessages, MaxBlockLen)

PluginProcessBlock ==
    /\ observedCall = NoCall
    /\ \E input \in PluginBlocks, hasValue \in BOOLEAN, newIsPlaying \in BOOLEAN :
        \E r \in HostBlockOutcomes(input, hasValue, newIsPlaying) :
          \E observe \in BOOLEAN :
            /\ Len(r.chord) <= MaxChordSize
            /\ chordNotes' = r.chord
            /\ playingNotes' = r.playing
            /\ ledger' = r.ledger
            /\ isPlaying' = r.isPlaying
            /\ hostBlock' = [hasPosition |-> hasValue, reported |-> newIsPlaying,
                             lastReported |-> LastReported, calls |-> r.calls]
            /\ observedCall' =
                   IF observe
                   THEN [op |-> "hostBlock", input |-> input,
                         chordBefore |-> chordNotes, playingBefore |-> playingNotes,
                         midiBuffer |-> r.buffer]
                   ELSE NoCall
            /\ UNCHANGED <<configVars, loggerVars>>

PluginNext == PluginProcessBlock \/ setPassThroughOtherMidi

PluginSpec == Init /\ [][PluginNext]_vars

(***************************************************************************)
(* Actions of EditorLogger.                                                *)
(***************************************************************************)
coordinatorVars ==
    <<chordNotes, playingNotes, configVars, isPlaying, ledger, hostBlock, observedCall>>

\* The lines the editor is given.
MessageLine(queue, n) == [kind |-> "message", queue |-> queue, n |-> n]
DroppedLine(dropped) == [kind |-> "dropped", queue |-> "rtDroppedMessages", n |-> dropped]

\* The calls of logMessage that have not yet put their message anywhere.
Entering == { t \in LoggingThreads : pc[t] \in {"pushRealtime", "lock", "add"} }

\* markCurrentThreadAsAudioThread, called by the audio thread (prepareToPlay).
markCurrentThreadAsAudioThread ==
    /\ pc[AudioThread] = "idle"
    /\ audioThreadId = NoThread
    /\ audioThreadId' = AudioThread
    /\ UNCHANGED <<coordinatorVars, editor, asyncUpdateRequested, updatePosted, rtFifo,
                   rtDroppedMessages, pendingMessages, nonRealtimeLock, editorLog, pc,
                   handlerLocal, logged, discarded>>

\* Whether logMessage takes the realtime path on thread t.
isOnAudioThread(t, audioThread) == audioThread # NoThread /\ t = audioThread

\* logMessage, entry: the thread ids are compared and the path is chosen.
logMessage(t) ==
    /\ pc[t] = "idle"
    /\ logged + Cardinality(Entering) < MaxMessages
    /\ pc' = [pc EXCEPT ![t] = IF isOnAudioThread(t, audioThreadId)
                               THEN "pushRealtime" ELSE "lock"]
    /\ UNCHANGED <<coordinatorVars, editor, audioThreadId, asyncUpdateRequested,
                   updatePosted, rtFifo, rtDroppedMessages, pendingMessages,
                   nonRealtimeLock, editorLog, handlerLocal, logged, discarded>>

\* rtFifo.prepareToWrite(1, ...) finds a free slot.
hasFreeSlot(fifo) == Len(fifo) < MaxRealtimeQueued

\* rtDroppedMessages.fetch_add(1).
droppedAfterOverflow(dropped) == dropped + 1

\* pushRealtime: the message goes into a free slot, or it is counted as
\* dropped.
pushRealtime(t) ==
    /\ pc[t] = "pushRealtime"
    /\ logged' = logged + 1
    /\ IF hasFreeSlot(rtFifo)
       THEN /\ rtFifo' = Append(rtFifo, logged + 1)
            /\ UNCHANGED <<rtDroppedMessages, discarded>>
       ELSE /\ rtDroppedMessages' = droppedAfterOverflow(rtDroppedMessages)
            /\ discarded' = discarded \cup {logged + 1}
            /\ UNCHANGED rtFifo
    /\ pc' = [pc EXCEPT ![t] = "exchange"]
    /\ UNCHANGED <<coordinatorVars, editor, audioThreadId, asyncUpdateRequested,
                   updatePosted, pendingMessages, nonRealtimeLock, editorLog,
                   handlerLocal>>

\* const juce::ScopedLock lock(nonRealtimeLock) in logMessage.
lockNonRealtime(t) ==
    /\ pc[t] = "lock"
    /\ nonRealtimeLock = NoThread
    /\ nonRealtimeLock' = t
    /\ pc' = [pc EXCEPT ![t] = "add"]
    /\ UNCHANGED <<coordinatorVars, editor, audioThreadId, asyncUpdateRequested,
                   updatePosted, rtFifo, rtDroppedMessages, pendingMessages, editorLog,
                   handlerLocal, logged, discarded>>

\* pendingMessages.add(message) and the end of the locked scope.
addPending(t) ==
    /\ pc[t] = "add"
    /\ logged' = logged + 1
    /\ pendingMessages' = Append(pendingMessages, logged + 1)
    /\ nonRealtimeLock' = NoThread
    /\ pc' = [pc EXCEPT ![t] = "exchange"]
    /\ UNCHANGED <<coordinatorVars, editor, audioThreadId, asyncUpdateRequested,
                   updatePosted, rtFifo, rtDroppedMessages, editorLog, handlerLocal,
                   discarded>>

\* Where a thread goes on when its requestAsyncUpdate call is over: the
\* message thread may be inside the locked scope of handleAsyncUpdate.
afterRequest(t) == IF nonRealtimeLock = t THEN "unlock" ELSE "idle"

\* Whether requestAsyncUpdate calls triggerAsyncUpdate, given what the
\* exchange returned.
triggersUpdate(wasRequested) == ~wasRequested

\* requestAsyncUpdate: asyncUpdateRequested.exchange(true).
exchangeRequested(t) ==
    /\ pc[t] = "exchange"
    /\ asyncUpdateRequested' = TRUE
    /\ pc' = [pc EXCEPT ![t] = IF triggersUpdate(asyncUpdateRequested)
                               THEN "trigger" ELSE afterRequest(t)]
    /\ UNCHANGED <<coordinatorVars, editor, audioThreadId, updatePosted, rtFifo,
                   rtDroppedMessages, pendingMessages, nonRealtimeLock, editorLog,
                   handlerLocal, logged, discarded>>

\* requestAsyncUpdate: triggerAsyncUpdate().
triggerAsyncUpdate(t) ==
    /\ pc[t] = "trigger"
    /\ updatePosted' = TRUE
    /\ pc' = [pc EXCEPT ![t] = afterRequest(t)]
    /\ UNCHANGED <<coordinatorVars, editor, audioThreadId, asyncUpdateRequested, rtFifo,
                   rtDroppedMessages, pendingMessages, nonRealtimeLock, editorLog,
                   handlerLocal, logged, discarded>>

\* setEditor: editor = newEditor, then requestAsyncUpdate().
setEditor ==
    /\ pc[MessageThread] = "idle"
    /\ ~editor
    /\ editor' = TRUE
    /\ pc' = [pc EXCEPT ![MessageThread] = "exchange"]
    /\ UNCHANGED <<coordinatorVars, audioThreadId, asyncUpdateRequested, updatePosted,
                   rtFifo, rtDroppedMessages, pendingMessages, nonRealtimeLock,
                   editorLog, handlerLocal, logged, discarded>>

clearEditor ==
    /\ pc[MessageThread] = "idle"
    /\ editor
    /\ editor' = FALSE
    /\ UNCHANGED <<coordinatorVars, audioThreadId, asyncUpdateRequested, updatePosted,
                   rtFifo, rtDroppedMessages, pendingMessages, nonRealtimeLock,
                   editorLog, pc, handlerLocal, logged, discarded>>

\* juce::AsyncUpdater: the message thread takes the posted update and calls
\* handleAsyncUpdate.
messageCallback ==
    /\ pc[MessageThread] = "idle"
    /\ updatePosted
    /\ updatePosted' = FALSE
    /\ pc' = [pc EXCEPT ![MessageThread] = "store"]
    /\ UNCHANGED <<coordinatorVars, editor, audioThreadId, asyncUpdateRequested, rtFifo,
                   rtDroppedMessages, pendingMessages, nonRealtimeLock, editorLog,
                   handlerLocal, logged, discarded>>

\* Mutant: the handler leaves asyncUpdateRequested as it finds it.
requestedKeptByHandler(requested) == requested

\* asyncUpdateRequested.store(false) at the start of handleAsyncUpdate.
requestedAfterHandlerStart(requested) == FALSE

\* handleAsyncUpdate: the request flag is cleared; without an editor the
\* handler returns.
handlerStart ==
    /\ pc[MessageThread] = "store"
    /\ asyncUpdateRequested' = requestedAfterHandlerStart(asyncUpdateRequested)
    /\ pc' = [pc EXCEPT ![MessageThread] = IF editor THEN "drain" ELSE "idle"]
    /\ UNCHANGED <<coordinatorVars, editor, audioThreadId, updatePosted, rtFifo,
                   rtDroppedMessages, pendingMessages, nonRealtimeLock, editorLog,
                   handlerLocal, logged, discarded>>

\* handleAsyncUpdate: rtFifo.getNumReady() at the top of the drain loop.
handlerNumReady ==
    /\ pc[MessageThread] = "drain"
    /\ handlerLocal' = [handlerLocal EXCEPT !.ready = Len(rtFifo)]
    /\ pc' = [pc EXCEPT ![MessageThread] = IF Len(rtFifo) <= 0 THEN "dropped" ELSE "read"]
    /\ UNCHANGED <<coordinatorVars, editor, audioThreadId, asyncUpdateRequested,
                   updatePosted, rtFifo, rtDroppedMessages, pendingMessages,
                   nonRealtimeLock, editorLog, logged, discarded>>

\* handleAsyncUpdate: the ready slots are passed to the editor in order.
handlerRead ==
    /\ pc[MessageThread] = "read"
    /\ editorLog' = editorLog \o [i \in 1..handlerLocal.ready |->
                                     MessageLine("rtFifo", rtFifo[i])]
    /\ pc' = [pc EXCEPT ![MessageThread] = "finishedRead"]
    /\ UNCHANGED <<coordinatorVars, editor, audioThreadId, asyncUpdateRequested,
                   updatePosted, rtFifo, rtDroppedMessages, pendingMessages,
                   nonRealtimeLock, handlerLocal, logged, discarded>>

\* handleAsyncUpdate: rtFifo.finishedRead(size1 + size2) frees the slots.
handlerFinishedRead ==
    /\ pc[MessageThread] = "finishedRead"
    /\ rtFifo' = SubSeq(rtFifo, handlerLocal.ready + 1, Len(rtFifo))
    /\ handlerLocal' = [handlerLocal EXCEPT !.ready = 0]
    /\ pc' = [pc EXCEPT ![MessageThread] = "drain"]
    /\ UNCHANGED <<coordinatorVars, editor, audioThreadId, asyncUpdateRequested,
                   updatePosted, rtDroppedMessages, pendingMessages, nonRealtimeLock,
                   editorLog, logged, discarded>>

\* Mutant: the counter is read and not reset.
droppedKeptAfterReport(dropped) == dropped

\* rtDroppedMessages.exchange(0): the value the counter is left with.
droppedAfterReport(dropped) == 0

\* handleAsyncUpdate: the dropped-message marker.
handlerReportDropped ==
    /\ pc[MessageThread] = "dropped"
    /\ rtDroppedMessages' = droppedAfterReport(rtDroppedMessages)
    /\ editorLog' = IF rtDroppedMessages > 0
                    THEN Append(editorLog, DroppedLine(rtDroppedMessages))
                    ELSE editorLog
    /\ pc' = [pc EXCEPT ![MessageThread] = "swapLock"]
    /\ UNCHANGED <<coordinatorVars, editor, audioThreadId, asyncUpdateRequested,
                   updatePosted, rtFifo, pendingMessages, nonRealtimeLock,
                   handlerLocal, logged, discarded>>

\* handleAsyncUpdate: the lock around messages.swapWith(pendingMessages).
handlerLockForSwap ==
    /\ pc[MessageThread] = "swapLock"
    /\ nonRealtimeLock = NoThread
    /\ nonRealtimeLock' = MessageThread
    /\ pc' = [pc EXCEPT ![MessageThread] = "swap"]
    /\ UNCHANGED <<coordinatorVars, editor, audioThreadId, asyncUpdateRequested,
                   updatePosted, rtFifo, rtDroppedMessages, pendingMessages, editorLog,
                   handlerLocal, logged, discarded>>

handlerSwap ==
    /\ pc[MessageThread] = "swap"
    /\ handlerLocal' = [handlerLocal EXCEPT !.messages = pendingMessages]
    /\ pendingMessages' = <<>>
    /\ nonRealtimeLock' = NoThread
    /\ pc' = [pc EXCEPT ![MessageThread] = "deliver"]
    /\ UNCHANGED <<coordinatorVars, editor, audioThreadId, asyncUpdateRequested,
                   updatePosted, rtFifo, rtDroppedMessages, editorLog, logged,
                   discarded>>

\* handleAsyncUpdate: the swapped-out messages are passed to the editor.
handlerDeliver ==
    /\ pc[MessageThread] = "deliver"
    /\ editorLog' = editorLog \o [i \in 1..Len(handlerLocal.messages) |->
                                     MessageLine("pendingMessages",
                                                 handlerLocal.messages[i])]
    /\ handlerLocal' = [handlerLocal EXCEPT !.messages = <<>>]
    /\ pc' = [pc EXCEPT ![MessageThread] = "check"]
    /\ UNCHANGED <<coordinatorVars, editor, audioThreadId, asyncUpdateRequested,
                   updatePosted, rtFifo, rtDroppedMessages, pendingMessages,
                   nonRealtimeLock, logged, discarded>>

\* handleAsyncUpdate: if (rtFifo.getNumReady() > 0) requestAsyncUpdate().
handlerCheckRealtime ==
    /\ pc[MessageThread] = "check"
    /\ pc' = [pc EXCEPT ![MessageThread] = IF Len(rtFifo) > 0 THEN "exchange"
                                           ELSE "checkLock"]
    /\ UNCHANGED <<coordinatorVars, editor, audioThreadId, asyncUpdateRequested,
                   updatePosted, rtFifo, rtDroppedMessages, pendingMessages,
                   nonRealtimeLock, editorLog, handlerLocal, logged, discarded>>

\* handleAsyncUpdate: else, under the lock, if (pendingMessages.size() > 0)
\* requestAsyncUpdate().
handlerCheckPending ==
    /\ pc[MessageThread] = "checkLock"
    /\ nonRealtimeLock = NoThread
    /\ nonRealtimeLock' = MessageThread
    /\ pc' = [pc EXCEPT ![MessageThread] = IF Len(pendingMessages) > 0 THEN "exchange"
                                           ELSE "unlock"]
    /\ UNCHANGED <<coordinatorVars, editor, audioThreadId, asyncUpdateRequested,
                   updatePosted, rtFifo, rtDroppedMessages, pendingMessages, editorLog,
                   handlerLocal, logged, discarded>>

\* handleAsyncUpdate: the end of the locked scope and of the handler.
handlerUnlock ==
    /\ pc[MessageThread] = "unlock"
    /\ nonRealtimeLock' = NoThread
    /\ pc' = [pc EXCEPT ![MessageThread] = "idle"]
    /\ UNCHANGED <<coordinatorVars, editor, audioThreadId, asyncUpdateRequested,
                   updatePosted, rtFifo, rtDroppedMessages, pendingMessages, editorLog,
                   handlerLocal, logged, discarded>>

\* The steps of a logMessage call after its entry, and of requestAsyncUpdate.
LoggingStep(t) ==
    \/ pushRealtime(t)
    \/ lockNonRealtime(t)
    \/ addPending(t)
    \/ exchangeRequested(t)
    \/ triggerAsyncUpdate(t)

\* The steps of the message thread once an update is posted.
HandlerStep ==
    \/ messageCallback
    \/ handlerStart
    \/ handlerNumReady
    \/ handlerRead
    \/ handlerFinishedRead
    \/ handlerReportDropped
    \/ handlerLockForSwap
    \/ handlerSwap
    \/ handlerDeliver
    \/ handlerCheckRealtime
    \/ handlerCheckPending
    \/ handlerUnlock

LoggerNext ==
    \/ markCurrentThreadAsAudioThread
    \/ \E t \in LoggingThreads : logMessage(t)
    \/ \E t \in Threads : LoggingStep(t)
    \/ HandlerStep
    \/ setEditor
    \/ clearEditor

\* Every thread that is inside a call goes on, and the message loop calls
\* back every posted update; nothing obliges a thread to log, or the host to
\* open or close the editor.
LoggerFairness ==
    /\ \A t \in Threads : WF_vars(LoggingStep(t))
    /\ WF_vars(HandlerStep)

LoggerSpec == Init /\ [][LoggerNext]_vars /\ LoggerFairness

(***************************************************************************)
(* Properties.  The words of a claim are translated directly: an event is  *)
(* classified by its channel, type and velocity, never by phasePriority.   *)
(***************************************************************************)
ObservedProcessBlockCall == observedCall.op = "processBlock"

AppliedLog == IF ObservedProcessBlockCall THEN observedCall.applyLog ELSE <<>>

IsRhythmRelease(evt) ==
    /\ evt.message.ch = rhythmInputChannel
    /\ \/ evt.message.type = "off"
       \/ (evt.message.type = "on" /\ evt.message.vel = 0)

IsRhythmTrigger(evt) ==
    /\ evt.message.ch = rhythmInputChannel
    /\ evt.message.type = "on"
    /\ evt.message.vel > 0

IsChordEdit(evt) ==
    /\ evt.message.ch = chordInputChannel
    /\ evt.message.type \in {"on", "off"}

OwnedBy(playing, p) == { i \in 1..Len(playing) : playing[i].ownerRhythmNote = p }

\* The chord index and octave offset of rhythm pitch p, as the specification
\* defines them (mathematical modulo and floor).
SpecChordIndex(p) == (p - rhythmRootNote) % 12
SpecOctaveOffset(p) == ((p - rhythmRootNote) - SpecChordIndex(p))

Resolves(chord, p) == SpecChordIndex(p) < Len(chord)

SameNote(a, b) == a.note = b.note /\ a.vel = b.vel

\* C1: whenever a rhythm-channel note-off-like event for pitch p is applied
\* while a voice owned by p exists, the note-offs it emits carry exactly the
\* pitch and velocity of the output note-on that created that voice,
\* whatever the chord has become since.
C1_NoteOffMatchesNoteOn ==
    \A k \in 1..Len(AppliedLog) :
        LET e == AppliedLog[k]
            p == e.evt.message.note
            ons == { l.on : l \in { x \in e.ledgerBefore : x.owner = p } }
        IN  (IsRhythmRelease(e.evt) /\ OwnedBy(e.playingBefore, p) # {}) =>
              /\ Len(e.emitted) >= 1
              /\ \A i \in 1..Len(e.emitted) :
                    /\ e.emitted[i].message.type = "off"
                    /\ \E on \in ons : SameNote(on, e.emitted[i].message)
              /\ \A on \in ons :
                    \E i \in 1..Len(e.emitted) : SameNote(on, e.emitted[i].message)

\* A voice created in an earlier block is released after the chord changed so
\* that recomputing from the chord would give another pitch, or none.
C1_Witness ==
    \E k \in 1..Len(AppliedLog) :
        LET e == AppliedLog[k]
            p == e.evt.message.note
        IN  /\ IsRhythmRelease(e.evt)
            /\ OwnedBy(observedCall.playingBefore, p) # {}
            /\ OwnedBy(e.playingBefore, p) # {}
            /\ e.chordBefore # observedCall.chordBefore
            /\ Len(e.emitted) = 1
            /\ \/ ~Resolves(e.chordBefore, p)
               \/ e.chordBefore[SpecChordIndex(p) + 1].note # e.emitted[1].message.note

\* C2: the voice tracker never holds two voices with the same owner rhythm key.
C2_OneVoicePerOwner ==
    \A i \in 1..Len(playingNotes) : \A j \in 1..Len(playingNotes) :
        i # j => playingNotes[i].ownerRhythmNote # playingNotes[j].ownerRhythmNote

\* A note-on for a key that already owned a voice was applied and the key
\* owns a voice afterwards.
C2_Witness ==
    \E k \in 1..Len(AppliedLog) :
        LET e == AppliedLog[k]
            p == e.evt.message.note
        IN  /\ IsRhythmTrigger(e.evt)
            /\ OwnedBy(e.playingBefore, p) # {}
            /\ OwnedBy(playingNotes, p) # {}

\* C3: a note-on for rhythm pitch p applied while p still owns the voice of
\* an earlier note-on (no note-off in between), and resolving against the
\* chord, emits exactly one note-off, for the first voice, followed by
\* exactly one note-on, both at this event's sample position, and leaves
\* exactly one voice owned by p.
C3_RetriggerDeterminism ==
    \A k \in 1..Len(AppliedLog) :
        LET e == AppliedLog[k]
            p == e.evt.message.note
            old == OwnedBy(e.playingBefore, p)
        IN  (IsRhythmTrigger(e.evt) /\ old # {} /\ Resolves(e.chordBefore, p)) =>
              /\ Len(e.emitted) = 2
              /\ e.emitted[1].message.type = "off"
              /\ \E i \in old : SameNote(e.playingBefore[i].message, e.emitted[1].message)
              /\ e.emitted[2].message.type = "on"
              /\ e.emitted[1].samplePosition = e.evt.samplePosition
              /\ e.emitted[2].samplePosition = e.evt.samplePosition
              /\ Cardinality(OwnedBy(e.playingAfter, p)) = 1

\* Both note-ons arrive in one block, the second at a later position.
C3_Witness ==
    \E j \in 1..Len(AppliedLog) : \E k \in 1..Len(AppliedLog) :
        /\ j < k
        /\ IsRhythmTrigger(AppliedLog[j].evt)
        /\ IsRhythmTrigger(AppliedLog[k].evt)
        /\ AppliedLog[j].evt.message.note = AppliedLog[k].evt.message.note
        /\ AppliedLog[j].evt.samplePosition < AppliedLog[k].evt.samplePosition
        /\ OwnedBy(AppliedLog[j].playingBefore, AppliedLog[j].evt.message.note) = {}
        /\ Len(AppliedLog[k].emitted) = 2

\* The phase of an event at one sample position, in the words of the claim.
ClaimedPhase(evt) ==
    IF IsRhythmRelease(evt) THEN 0
    ELSE IF IsChordEdit(evt) THEN 1
    ELSE IF IsRhythmTrigger(evt) THEN 2
    ELSE 3

\* The chord-channel edits of a buffer at positions from..upTo, by position
\* and, at one position, in arrival order.
RECURSIVE ChordEditsBetween(_, _, _)
ChordEditsBetween(input, from, upTo) ==
    IF from > upTo THEN <<>>
    ELSE LET At(evt) == IsChordEdit(evt) /\ evt.samplePosition = from
         IN  SelectSeq(input, At) \o ChordEditsBetween(input, from + 1, upTo)

\* The registries a sequence of chord edits can turn a set of registries into.
RECURSIVE ChordsEditedBy(_, _)
ChordsEditedBy(chords, edits) ==
    IF edits = <<>> THEN chords
    ELSE LET m == Head(edits).message
         IN  ChordsEditedBy(
                 IF m.type = "on" /\ m.vel > 0
                 THEN UNION { insertChordNote(c, m.note, m.vel, m.ch) : c \in chords }
                 ELSE { removeChordNote(c, m.note) : c \in chords },
                 Tail(edits))

\* C4: among the events of one block that share a sample position, rhythm
\* releases are applied first, then chord edits, then rhythm note-ons,
\* whatever their order in the input buffer; a rhythm note-on at position t
\* resolves against the chord as edited by every chord event up to and
\* including t, and a rhythm release at t sees no chord edit of position t.
C4_SameInstantTieBreak ==
    /\ \A i \in 1..Len(AppliedLog) : \A j \in 1..Len(AppliedLog) :
          ( /\ i < j
            /\ AppliedLog[i].evt.samplePosition = AppliedLog[j].evt.samplePosition
            /\ ClaimedPhase(AppliedLog[i].evt) <= 2
            /\ ClaimedPhase(AppliedLog[j].evt) <= 2 )
          => ClaimedPhase(AppliedLog[i].evt) <= ClaimedPhase(AppliedLog[j].evt)
    /\ \A k \in 1..Len(AppliedLog) :
          LET e == AppliedLog[k]
              t == e.evt.samplePosition
          IN  /\ IsRhythmTrigger(e.evt) =>
                   e.chordBefore \in
                     ChordsEditedBy({observedCall.chordBefore},
                                    ChordEditsBetween(observedCall.input, 0, t))
              /\ IsRhythmRelease(e.evt) =>
                   e.chordBefore \in
                     ChordsEditedBy({observedCall.chordBefore},
                                    ChordEditsBetween(observedCall.input, 0, t - 1))

\* A rhythm note-on arrives in the buffer before a chord note-on of the same
\* sample position and sounds only because that chord note is applied first.
C4_Witness ==
    /\ ObservedProcessBlockCall
    /\ observedCall.chordBefore = <<>>
    /\ Len(observedCall.outputEvents) >= 1
    /\ \E i \in 1..Len(observedCall.input) : \E j \in 1..Len(observedCall.input) :
          /\ i < j
          /\ IsRhythmTrigger(observedCall.input[i])
          /\ IsChordEdit(observedCall.input[j])
          /\ observedCall.input[i].samplePosition = observedCall.input[j].samplePosition

CountIn(seq, x) == Cardinality({ i \in 1..Len(seq) : seq[i] = x })

\* C5: within one processBlock call every input event is applied once, and
\* the events are applied in non-decreasing sample-position order, whatever
\* their arrival order in the input buffer.
C5_TimeCausalApplication ==
    ObservedProcessBlockCall =>
      /\ Len(AppliedLog) = Len(observedCall.input)
      /\ \A i \in 1..Len(observedCall.input) :
            CountIn(observedCall.input, observedCall.input[i])
              = CountIn([k \in 1..Len(AppliedLog) |-> AppliedLog[k].evt],
                        observedCall.input[i])
      /\ \A i \in 1..Len(AppliedLog) : \A j \in 1..Len(AppliedLog) :
            i < j => AppliedLog[i].evt.samplePosition <= AppliedLog[j].evt.samplePosition

\* The buffer holds a rhythm note-on of a later position in front of the
\* chord note-on of an earlier position that it needs to sound.
C5_Witness ==
    /\ ObservedProcessBlockCall
    /\ observedCall.chordBefore = <<>>
    /\ Len(observedCall.outputEvents) >= 1
    /\ \E i \in 1..Len(observedCall.input) : \E j \in 1..Len(observedCall.input) :
          /\ i < j
          /\ IsRhythmTrigger(observedCall.input[i])
          /\ IsChordEdit(observedCall.input[j])
          /\ observedCall.input[i].samplePosition > observedCall.input[j].samplePosition

ObservedStopFlush ==
    /\ observedCall.op = "onIsPlayingChanged"
    /\ observedCall.oldValue = TRUE
    /\ observedCall.newValue = FALSE
    /\ observedCall.hasBuffer

\* C6: a play-to-stop event with a MIDI buffer leaves in the buffer exactly
\* one note-off at sample position 0 per voice that was active, with the
\* voice's pitch and velocity on the output channel, and nothing of the
\* buffer's previous content; the tracker and the registry are empty then.
C6_TransportStopFlush ==
    ObservedStopFlush =>
      /\ observedCall.midiBuffer =
           [i \in 1..Len(observedCall.playingBefore) |->
              [message |-> [type |-> "off", ch |-> outputChannel,
                            note |-> observedCall.playingBefore[i].message.note,
                            vel |-> observedCall.playingBefore[i].message.vel],
               samplePosition |-> 0]]
      /\ playingNotes = <<>>
      /\ chordNotes = <<>>

\* Two voices are active and the buffer is not empty when the stop arrives.
C6_Witness ==
    /\ ObservedStopFlush
    /\ Len(observedCall.playingBefore) = 2
    /\ observedCall.chordBefore # <<>>
    /\ observedCall.input # <<>>
    /\ Len(observedCall.midiBuffer) = 2

\* The stop-flush deliveries among the coordinator calls of a host block.
StopFlushes(calls) ==
    { i \in 1..Len(calls) :
        /\ calls[i].call = "onIsPlayingChanged"
        /\ calls[i].oldValue = TRUE
        /\ calls[i].newValue = FALSE }

ReportedStopTransition ==
    hostBlock.hasPosition /\ hostBlock.lastReported /\ ~hostBlock.reported

\* C7: in every host block the coordinator gets the stop-flush reaction once
\* if the reported playing state went from playing to stopped in that block
\* and not at all otherwise, and never after processBlock used the buffer.
C7_StopFlushOncePerTransition ==
    /\ Cardinality(StopFlushes(hostBlock.calls))
         = IF ReportedStopTransition THEN 1 ELSE 0
    /\ \A i \in StopFlushes(hostBlock.calls) :
          \A j \in 1..(i - 1) : hostBlock.calls[j].call # "processBlock"

\* The host reports stopped after playing while a voice is sounding.
C7_Witness ==
    /\ ReportedStopTransition
    /\ Cardinality(StopFlushes(hostBlock.calls)) = 1
    /\ observedCall.op = "hostBlock"
    /\ observedCall.playingBefore # <<>>
    /\ playingNotes = <<>>

\* C8: a rhythm note-on (velocity > 0) for pitch p whose chord index is not
\* below the chord size emits no note-on and creates no voice; after it no
\* voice owned by p exists.
C8_UnresolvedTrigger ==
    \A k \in 1..Len(AppliedLog) :
        LET e == AppliedLog[k]
            p == e.evt.message.note
        IN  (IsRhythmTrigger(e.evt) /\ ~Resolves(e.chordBefore, p)) =>
              /\ \A i \in 1..Len(e.emitted) : e.emitted[i].message.type # "on"
              /\ OwnedBy(e.playingAfter, p) = {}
              /\ Len(e.playingAfter) <= Len(e.playingBefore)

\* The chord holds a note, but not at the index the rhythm key asks for.
C8_Witness ==
    \E k \in 1..Len(AppliedLog) :
        LET e == AppliedLog[k]
        IN  /\ IsRhythmTrigger(e.evt)
            /\ e.chordBefore # <<>>
            /\ ~Resolves(e.chordBefore, e.evt.message.note)
            /\ e.emitted = <<>>

\* C9: a rhythm note-on (velocity > 0) for pitch p at position t that
\* resolves emits exactly one note-on, at t on the output channel, with
\* pitch = chord note pitch + octave offset and the chord note's velocity,
\* and adds exactly one voice owned by p with that pitch and velocity.
C9_TriggerMapping ==
    \A k \in 1..Len(AppliedLog) :
        LET e == AppliedLog[k]
            p == e.evt.message.note
        IN  (IsRhythmTrigger(e.evt) /\ Resolves(e.chordBefore, p)) =>
              LET c == e.chordBefore[SpecChordIndex(p) + 1]
                  pitch == c.note + SpecOctaveOffset(p)
                  ons == { i \in 1..Len(e.emitted) : e.emitted[i].message.type = "on" }
                  owned == OwnedBy(e.playingAfter, p)
              IN  /\ Cardinality(ons) = 1
                  /\ \A i \in ons :
                        /\ e.emitted[i].samplePosition = e.evt.samplePosition
                        /\ e.emitted[i].message.ch = outputChannel
                        /\ e.emitted[i].message.note = pitch
                        /\ e.emitted[i].message.vel = c.vel
                  /\ Cardinality(owned) = 1
                  /\ \A i \in owned :
                        /\ e.playingAfter[i].message.note = pitch
                        /\ e.playingAfter[i].message.vel = c.vel

\* C10: every event processBlock leaves in the buffer has the sample
\* position of an event of that block's input, and every generated event
\* has the position of the input event that caused it.
C10_OrderPreservation ==
    ObservedProcessBlockCall =>
      /\ \A i \in 1..Len(observedCall.midiBuffer) :
            \E j \in 1..Len(observedCall.input) :
                observedCall.input[j].samplePosition
                  = observedCall.midiBuffer[i].samplePosition
      /\ \A k \in 1..Len(AppliedLog) :
            \A i \in 1..Len(AppliedLog[k].emitted) :
                AppliedLog[k].emitted[i].samplePosition
                  = AppliedLog[k].evt.samplePosition

\* With pass-through on, the buffer holds a generated note-on and a kept
\* message of another channel at different positions.
C10_Witness ==
    /\ ObservedProcessBlockCall
    /\ observedCall.passThrough
    /\ \E i \in 1..Len(observedCall.midiBuffer) :
        \E j \in 1..Len(observedCall.midiBuffer) :
          /\ observedCall.midiBuffer[i].message.ch = outputChannel
          /\ observedCall.midiBuffer[i].message.type = "on"
          /\ observedCall.midiBuffer[j].message.ch = 5
          /\ observedCall.midiBuffer[i].samplePosition
               # observedCall.midiBuffer[j].samplePosition

OnOutputChannel(e) == e.message.ch = outputChannel

\* C11: after processBlock the events of the buffer are in non-decreasing
\* sample-position order and the generated events stand in it in the order
\* they were emitted (the note-off of a retrigger before its note-on), with
\* pass-through on or off.
C11_CausallyOrderedOutput ==
    ObservedProcessBlockCall =>
      /\ \A i \in 1..Len(observedCall.midiBuffer) :
            \A j \in 1..Len(observedCall.midiBuffer) :
                i < j => observedCall.midiBuffer[i].samplePosition
                           <= observedCall.midiBuffer[j].samplePosition
      /\ SelectSeq(observedCall.midiBuffer, OnOutputChannel)
           = observedCall.outputEvents
      /\ \A k \in 1..Len(AppliedLog) :
            LET e == AppliedLog[k]
            IN  (IsRhythmTrigger(e.evt) /\ Len(e.emitted) = 2) =>
                  \E i \in 1..Len(observedCall.midiBuffer) :
                    \E j \in 1..Len(observedCall.midiBuffer) :
                      /\ i < j
                      /\ observedCall.midiBuffer[i] = e.emitted[1]
                      /\ observedCall.midiBuffer[i].message.type = "off"
                      /\ observedCall.midiBuffer[j] = e.emitted[2]
                      /\ observedCall.midiBuffer[j].message.type = "on"

\* With pass-through on, a retrigger leaves its note-off and its note-on at
\* the position where a message of another channel is kept.
C11_Witness ==
    /\ ObservedProcessBlockCall
    /\ observedCall.passThrough
    /\ Len(observedCall.outputEvents) = 2
    /\ observedCall.outputEvents[1].message.type = "off"
    /\ observedCall.outputEvents[2].message.type = "on"
    /\ \E i \in 1..Len(observedCall.midiBuffer) :
          /\ ~OnOutputChannel(observedCall.midiBuffer[i])
          /\ observedCall.midiBuffer[i].samplePosition
               = observedCall.outputEvents[1].samplePosition

\* The events of two sequences taken together.
EventsOf(a, b) == { a[i] : i \in 1..Len(a) } \cup { b[i] : i \in 1..Len(b) }

\* C12: with pass-through off the buffer holds after processBlock exactly
\* the events generated while the block was applied, all of them note-ons
\* and note-offs on the output channel, and no event of the input, whatever
\* its channel or type.
C12_PassThroughOffOutput ==
    (ObservedProcessBlockCall /\ ~observedCall.passThrough) =>
      /\ Len(observedCall.midiBuffer) = Len(observedCall.outputEvents)
      /\ \A x \in EventsOf(observedCall.midiBuffer, observedCall.outputEvents) :
            CountIn(observedCall.midiBuffer, x)
              = CountIn(observedCall.outputEvents, x)
      /\ \A i \in 1..Len(observedCall.midiBuffer) :
            /\ observedCall.midiBuffer[i].message.ch = outputChannel
            /\ observedCall.midiBuffer[i].message.type \in {"on", "off"}

\* Pass-through is off; the input holds a message of another channel next
\* to a rhythm note-on that sounds.
C12_Witness ==
    /\ ObservedProcessBlockCall
    /\ ~observedCall.passThrough
    /\ Len(observedCall.outputEvents) >= 1
    /\ \E i \in 1..Len(observedCall.input) :
          ~isConsumed(observedCall.input[i].message)
    /\ Len(observedCall.midiBuffer) < Len(observedCall.input)

KeptInput(e) == ~isConsumed(e.message)

\* C13: with pass-through on the buffer holds after processBlock exactly the
\* input events of channels other than the chord, rhythm and output channel,
\* unchanged and at their positions, together with the generated events;
\* every input event of those three channels is gone.
C13_PassThroughOnOutput ==
    (ObservedProcessBlockCall /\ observedCall.passThrough) =>
      LET kept == SelectSeq(observedCall.input, KeptInput)
      IN  /\ Len(observedCall.midiBuffer)
               = Len(kept) + Len(observedCall.outputEvents)
          /\ \A x \in EventsOf(observedCall.midiBuffer,
                               kept \o observedCall.outputEvents) :
                CountIn(observedCall.midiBuffer, x)
                  = CountIn(kept, x) + CountIn(observedCall.outputEvents, x)
          /\ SelectSeq(observedCall.midiBuffer, OnOutputChannel)
               = observedCall.outputEvents
          /\ \A i \in 1..Len(observedCall.midiBuffer) :
                LET m == observedCall.midiBuffer[i].message
                IN  m.ch # chordInputChannel /\ m.ch # rhythmInputChannel

\* Pass-through is on; of the input a message of another channel is kept, a
\* rhythm note-on is removed and the note-on it generated is added.
C13_Witness ==
    /\ ObservedProcessBlockCall
    /\ observedCall.passThrough
    /\ Len(observedCall.outputEvents) = 1
    /\ Len(SelectSeq(observedCall.input, KeptInput)) = 1
    /\ Len(observedCall.input) = 2
    /\ Len(observedCall.midiBuffer) = 2

\* C14: whatever inserts, removes and clears were applied to the empty chord
\* registry, noteAt(0), noteAt(1), ... noteAt(size - 1) are pitches in
\* non-decreasing order.
C14_RegistrySorted ==
    \A i \in 0..(getChordSize(chordNotes) - 1) :
        \A j \in 0..(getChordSize(chordNotes) - 1) :
            i < j => getChordNoteByIndex(chordNotes, i).note
                       <= getChordNoteByIndex(chordNotes, j).note

\* A note was inserted below the note the registry held.
C14_Witness ==
    /\ observedCall.op = "insertChordNote"
    /\ Len(observedCall.chordBefore) = 1
    /\ observedCall.chordBefore[1].note > observedCall.noteNumber
    /\ getChordSize(chordNotes) = 2
    /\ getChordNoteByIndex(chordNotes, 0).note = observedCall.noteNumber

ObservedStop == observedCall.op = "stopPlayingNotesForRhythmOwner"

\* C18: when stopPlayingNotesForRhythmOwner(k) is called twice in a row, the
\* second call returns an empty list and leaves the tracker as it found it.
C18_StopIdempotent ==
    (ObservedStop /\ observedCall.repeated) =>
      /\ observedCall.stopped = <<>>
      /\ playingNotes = observedCall.playingBefore

\* The second of two stops for a key; the first one stopped notes of that
\* key, and notes of another key are still playing.
C18_Witness ==
    /\ ObservedStop
    /\ observedCall.repeated
    /\ observedCall.stoppedBefore = 2
    /\ playingNotes # <<>>

\* Whether sub can be had from seq by leaving elements out.
RECURSIVE IsOrderedSubSeq(_, _)
IsOrderedSubSeq(sub, seq) ==
    IF sub = <<>> THEN TRUE
    ELSE IF seq = <<>> THEN FALSE
    ELSE IF Head(sub) = Head(seq) THEN IsOrderedSubSeq(Tail(sub), Tail(seq))
    ELSE IsOrderedSubSeq(sub, Tail(seq))

\* C19: stopPlayingNotesForRhythmOwner(k) removes every voice whose owner is
\* k and returns exactly those; the voices of other owners stay, unchanged
\* and in the order they had.
C19_StopRemovesAllOwned ==
    ObservedStop =>
      LET k == observedCall.rhythmNoteNumber
          before == observedCall.playingBefore
      IN  /\ OwnedBy(playingNotes, k) = {}
          /\ \A i \in 1..Len(observedCall.stopped) :
                observedCall.stopped[i].ownerRhythmNote = k
          /\ Len(observedCall.stopped) = Cardinality(OwnedBy(before, k))
          /\ Len(playingNotes) = Len(before) - Cardinality(OwnedBy(before, k))
          /\ IsOrderedSubSeq(observedCall.stopped, before)
          /\ IsOrderedSubSeq(playingNotes, before)

\* Two voices of the key are stopped and a voice of another key, which
\* stood between them, stays.
C19_Witness ==
    /\ ObservedStop
    /\ Len(observedCall.playingBefore) = 3
    /\ Len(observedCall.stopped) = 2
    /\ observedCall.playingBefore[2].ownerRhythmNote # observedCall.rhythmNoteNumber
    /\ playingNotes = <<observedCall.playingBefore[2]>>

ObservedLookup == observedCall.op = "getChordNoteByIndex"

\* C20: getChordNoteByIndex(index) gives no note for every index below 0 or
\* not below the size, on the empty registry too; for an index within the
\* registry it gives the index-th note in ascending pitch order; the
\* registry is as before.
C20_LookupOutOfRange ==
    ObservedLookup =>
      LET i == observedCall.chordIndex
          c == observedCall.chordBefore
          r == observedCall.result
      IN  /\ (i < 0 \/ i >= Len(c)) => r = Null
          /\ (i >= 0 /\ i < Len(c)) =>
                /\ r # Null
                /\ \E j \in 1..Len(c) : c[j] = r
                /\ Cardinality({ j \in 1..Len(c) : c[j].note < r.note }) <= i
                /\ Cardinality({ j \in 1..Len(c) : c[j].note <= r.note }) > i
          /\ chordNotes = c

\* The index is the size of a registry that holds notes.
C20_Witness ==
    /\ ObservedLookup
    /\ Len(observedCall.chordBefore) = MaxChordSize
    /\ observedCall.chordIndex = Len(observedCall.chordBefore)
    /\ observedCall.result = Null

ObservedChordIndex == observedCall.op = "computeChordIndex"

ObservedOctaveOffset == observedCall.op = "computeOctaveOffset"

\* C15: for every rhythm pitch p, below the root too, and every root r,
\* computeChordIndex(p, r) is in 0..11 and equals computeChordIndex(p + 12, r).
C15_ChordIndexRangeAndPeriod ==
    ObservedChordIndex =>
      /\ observedCall.result \in 0..11
      /\ computeChordIndex(observedCall.rhythmNote + 12, observedCall.rootNote)
           = observedCall.result

\* The pitch is below the root, not by whole octaves, and the pitch an
\* octave higher is above the root.
C15_Witness ==
    /\ ObservedChordIndex
    /\ observedCall.rhythmNote < observedCall.rootNote
    /\ observedCall.rhythmNote + 12 > observedCall.rootNote
    /\ observedCall.result > 0

\* C16, as amended: for every rhythm pitch p and root r,
\* computeOctaveOffset(p + 12, r) = computeOctaveOffset(p, r) + 12: the
\* pitch an octave higher has the octave offset that is 12 greater.
C16_OctaveOffsetShift ==
    ObservedOctaveOffset =>
      computeOctaveOffset(observedCall.rhythmNote + 12, observedCall.rootNote)
        = observedCall.result + 12

\* C16, as stated: for every rhythm pitch p and root r,
\* computeOctaveOffset(p, r) = computeOctaveOffset(p + 12, r) + 12.
C16_OctaveOffsetAsStated ==
    ObservedOctaveOffset =>
      observedCall.result
        = computeOctaveOffset(observedCall.rhythmNote + 12, observedCall.rootNote) + 12

\* The pitch is below the root and the pitch an octave higher is above it.
C16_Witness ==
    /\ ObservedOctaveOffset
    /\ observedCall.rhythmNote < observedCall.rootNote
    /\ observedCall.rhythmNote + 12 > observedCall.rootNote
    /\ observedCall.result = -12

\* C17: for every rhythm pitch p in 0..127 and root r, computeChordIndex is
\* ((p - r) mod 12 + 12) mod 12 and computeOctaveOffset is
\* floor((p - r) / 12) * 12, so that the two add up to p - r; p = 11 with
\* r = 24 gives chord index 11 and octave offset -24.
C17_BelowRootMapping ==
    (ObservedChordIndex \/ ObservedOctaveOffset) =>
      LET p == observedCall.rhythmNote
          r == observedCall.rootNote
          chordIndex == IF ObservedChordIndex THEN observedCall.result
                        ELSE computeChordIndex(p, r)
          octaveOffset == IF ObservedOctaveOffset THEN observedCall.result
                          ELSE computeOctaveOffset(p, r)
      IN  /\ chordIndex = (((p - r) % 12) + 12) % 12
          /\ chordIndex = (CRem(p - r, 12) + 12) % 12
          /\ octaveOffset = ((p - r) \div 12) * 12
          /\ octaveOffset + chordIndex = p - r
          /\ (p = 11 /\ r = 24) => (chordIndex = 11 /\ octaveOffset = -24)

\* Pitch 11 with root 24.
C17_Witness ==
    /\ ObservedOctaveOffset
    /\ observedCall.rhythmNote = 11
    /\ observedCall.rootNote = 24
    /\ observedCall.result = -24
    /\ computeChordIndex(observedCall.rhythmNote, observedCall.rootNote) = 11

ObservedRemove == observedCall.op = "removeChordNote"

ObservedInsert == observedCall.op = "insertChordNote"

\* The notes of a registry that have a pitch.
WithPitch(chord, pitch) == { i \in 1..Len(chord) : chord[i].note = pitch }

\* C21: removeChordNote(pitch) removes exactly one note, the first of that
\* pitch in the sorted registry, and returns true if the registry holds a
\* note of that pitch; the other notes, further notes of the pitch among
\* them, stay.  Otherwise it returns false and the registry is as before.
C21_RemoveFirstOfPitch ==
    ObservedRemove =>
      LET c == observedCall.chordBefore
          n == observedCall.noteNumber
      IN  IF WithPitch(c, n) # {}
          THEN /\ observedCall.removed = TRUE
               /\ \E k \in WithPitch(c, n) :
                     /\ \A j \in WithPitch(c, n) : k <= j
                     /\ chordNotes = SubSeq(c, 1, k - 1) \o SubSeq(c, k + 1, Len(c))
          ELSE /\ observedCall.removed = FALSE
               /\ chordNotes = c

\* The registry holds the pitch twice, with different velocities; the first
\* of the two notes is removed and the second stays.
C21_Witness ==
    /\ ObservedRemove
    /\ Len(observedCall.chordBefore) = 2
    /\ Cardinality(WithPitch(observedCall.chordBefore, observedCall.noteNumber)) = 2
    /\ observedCall.chordBefore[1] # observedCall.chordBefore[2]
    /\ observedCall.removed
    /\ chordNotes = <<observedCall.chordBefore[2]>>

ObservedNoteOffs == observedCall.op = "getAllPlayingNotesAsNoteOffs"

\* C23: getAllPlayingNotesAsNoteOffs(channel) returns one note-off per
\* active voice, with the voice's pitch and velocity on the given channel,
\* and leaves the tracker as it is.
C23_NoteOffPerVoice ==
    ObservedNoteOffs =>
      /\ Len(observedCall.result) = Len(observedCall.playingBefore)
      /\ \A i \in 1..Len(observedCall.result) :
            observedCall.result[i]
              = [type |-> "off", ch |-> observedCall.channel,
                 note |-> observedCall.playingBefore[i].message.note,
                 vel |-> observedCall.playingBefore[i].message.vel]
      /\ playingNotes = observedCall.playingBefore

\* Voices of two keys are active; the channel asked for is not the channel
\* the voices were started on.
C23_Witness ==
    /\ ObservedNoteOffs
    /\ Len(observedCall.playingBefore) >= 2
    /\ observedCall.playingBefore[1].ownerRhythmNote
         # observedCall.playingBefore[2].ownerRhythmNote
    /\ observedCall.channel # observedCall.playingBefore[1].message.ch
    /\ Len(observedCall.result) = Len(playingNotes)

\* An explicit note-off or a note-on with velocity 0, by the bytes of the
\* message.
IsOffForm(msg) == msg.type = "off" \/ (msg.type = "on" /\ msg.vel = 0)

\* The other form of a note-off: same channel and pitch.
OtherOffForm(msg) ==
    IF msg.type = "off" THEN VelocityZeroNoteOn(msg.ch, msg.note)
    ELSE NoteOff(msg.ch, msg.note, 0)

\* What a processBlock call can leave: output events, buffer, registry and
\* tracker.
BlockResults(chord, playing, led, input, passThrough) ==
    { [out |-> r.out, buffer |-> r.buffer, chord |-> r.chord, playing |-> r.playing] :
        r \in ProcessBlockOutcomes(chord, playing, led, input, passThrough) }

\* C24: a note-on with velocity 0 is treated as an explicit note-off: when
\* a note-off of a block on the rhythm or the chord channel is given in the
\* other form, with the same channel, pitch and position, it has the same
\* sort priority and the block has the same output events and leaves the
\* same registry and tracker.
C24_VelocityZeroIsNoteOff ==
    ObservedProcessBlockCall =>
      \A i \in 1..Len(observedCall.input) :
        LET m == observedCall.input[i].message
            other == [observedCall.input EXCEPT ![i].message = OtherOffForm(m)]
        IN  (IsOffForm(m) /\ m.ch \in {rhythmInputChannel, chordInputChannel}) =>
              /\ phasePriority(OtherOffForm(m)) = phasePriority(m)
              /\ BlockResults(observedCall.chordBefore, observedCall.playingBefore,
                              observedCall.ledgerBefore, other,
                              observedCall.passThrough)
                   = BlockResults(observedCall.chordBefore,
                                  observedCall.playingBefore,
                                  observedCall.ledgerBefore, observedCall.input,
                                  observedCall.passThrough)
              /\ [out |-> observedCall.outputEvents, buffer |-> observedCall.midiBuffer,
                  chord |-> chordNotes, playing |-> playingNotes]
                   \in BlockResults(observedCall.chordBefore,
                                    observedCall.playingBefore,
                                    observedCall.ledgerBefore, other,
                                    observedCall.passThrough)

\* A rhythm note-on with velocity 0 stops the voice of its key, and a chord
\* note-on with velocity 0 takes the note out of the chord.
C24_Witness ==
    /\ ObservedProcessBlockCall
    /\ observedCall.playingBefore # <<>>
    /\ observedCall.chordBefore # <<>>
    /\ \E i \in 1..Len(observedCall.input) :
          observedCall.input[i].message
            = VelocityZeroNoteOn(rhythmInputChannel, 24)
    /\ \E i \in 1..Len(observedCall.input) :
          observedCall.input[i].message
            = VelocityZeroNoteOn(chordInputChannel, 60)
    /\ Len(observedCall.outputEvents) = 1
    /\ observedCall.outputEvents[1].message.type = "off"
    /\ playingNotes = <<>>
    /\ chordNotes = <<>>

\* The voices of a tracker that a rhythm key does not own, in their order.
NotOwnedBy(playing, p) ==
    LET Other(v) == v.ownerRhythmNote # p
    IN  SelectSeq(playing, Other)

\* Every event applied in the observed call left the voices it did not
\* remove as they were, and only a rhythm note-on added a voice, behind them.
LogKeepsVoices ==
    /\ \A k \in 1..Len(AppliedLog) :
          LET e == AppliedLog[k]
              p == e.evt.message.note
          IN  /\ e.playingBefore = IF k = 1 THEN observedCall.playingBefore
                                   ELSE AppliedLog[k - 1].playingAfter
              /\ IF IsRhythmTrigger(e.evt)
                 THEN \/ e.playingAfter = NotOwnedBy(e.playingBefore, p)
                      \/ /\ e.playingAfter # <<>>
                         /\ SubSeq(e.playingAfter, 1, Len(e.playingAfter) - 1)
                              = NotOwnedBy(e.playingBefore, p)
                 ELSE IF IsRhythmRelease(e.evt)
                 THEN e.playingAfter = NotOwnedBy(e.playingBefore, p)
                 ELSE e.playingAfter = e.playingBefore
    /\ Len(AppliedLog) > 0 => playingNotes = AppliedLog[Len(AppliedLog)].playingAfter

\* C25: from the step that adds a voice to the step that removes it, the
\* voice's pitch, velocity, owner key, chord index and octave offset stay as
\* recorded: a configuration change leaves the tracker as it is, and every
\* event applied in processBlock leaves every voice it does not remove as it
\* is, chord events all of them.
C25_VoiceImmutability ==
    [][ /\ (configVars' # configVars) => (playingNotes' = playingNotes)
        /\ LogKeepsVoices' ]_vars

\* A voice started under another root note and output channel stays as it
\* is through a block that changes the chord note it was taken from.
C25_Witness ==
    /\ ObservedProcessBlockCall
    /\ Len(observedCall.playingBefore) = 1
    /\ playingNotes = observedCall.playingBefore
    /\ playingNotes[1].message.ch # outputChannel
    /\ playingNotes[1].ownerRhythmNote - playingNotes[1].originalChordIndex
         # rhythmRootNote
    /\ chordNotes # <<>>
    /\ chordNotes # observedCall.chordBefore
    /\ getChordNoteByIndex(chordNotes, playingNotes[1].originalChordIndex) # Null
    /\ getChordNoteByIndex(chordNotes, playingNotes[1].originalChordIndex).note
         + playingNotes[1].octaveOffset # playingNotes[1].message.note

ObservedIsPlayingChangedCall == observedCall.op = "onIsPlayingChanged"

\* Whether a rhythm key has a voice: the key is Sounding, not Idle.
Sounding(playing, p) == OwnedBy(playing, p) # {}

\* Each applied event moves the keys as the state machine says.
KeyMachineInLog ==
    \A k \in 1..Len(AppliedLog) :
        LET e == AppliedLog[k]
            m == e.evt.message
        IN  /\ e.playingBefore = IF k = 1 THEN observedCall.playingBefore
                                 ELSE AppliedLog[k - 1].playingAfter
            /\ k = Len(AppliedLog) => playingNotes = e.playingAfter
            /\ \A p \in MidiPitches :
                  IF IsRhythmTrigger(e.evt) /\ m.note = p
                  THEN Sounding(e.playingAfter, p) <=> Resolves(e.chordBefore, p)
                  ELSE IF IsRhythmRelease(e.evt) /\ m.note = p
                  THEN ~Sounding(e.playingAfter, p)
                  ELSE Sounding(e.playingAfter, p) <=> Sounding(e.playingBefore, p)

\* The transport-stop flush makes every key Idle; any other playing-state
\* event leaves the keys as they are.
KeyMachineInFlush ==
    ObservedIsPlayingChangedCall =>
      IF observedCall.oldValue /\ ~observedCall.newValue
      THEN playingNotes = <<>>
      ELSE playingNotes = observedCall.playingBefore

\* C26: every key is Idle at the start; a rhythm note-on (velocity > 0) for
\* p makes p Sounding if its chord index resolves when it is applied and
\* Idle if not; a note-off-like event for p and the transport-stop flush
\* make p Idle; nothing else changes whether p is Sounding.  So after every
\* processBlock call p has a voice exactly if the last rhythm event for p
\* since the last flush was a note-on that resolved.
C26_RhythmKeyStateMachine ==
    /\ playingNotes = <<>>
    /\ [](KeyMachineInLog /\ KeyMachineInFlush)

\* In one block a key goes from Idle to Sounding and back to Idle while
\* another key stays Sounding.
C26_Witness ==
    /\ ObservedProcessBlockCall
    /\ Len(AppliedLog) = 2
    /\ IsRhythmTrigger(AppliedLog[1].evt)
    /\ ~Sounding(AppliedLog[1].playingBefore, AppliedLog[1].evt.message.note)
    /\ Sounding(AppliedLog[1].playingAfter, AppliedLog[1].evt.message.note)
    /\ IsRhythmRelease(AppliedLog[2].evt)
    /\ AppliedLog[2].evt.message.note = AppliedLog[1].evt.message.note
    /\ ~Sounding(playingNotes, AppliedLog[1].evt.message.note)
    /\ playingNotes # <<>>

\* Each applied event that is not a chord-channel note-on or note-off-like
\* event left the registry as it was.
LogKeepsChord ==
    \A k \in 1..Len(AppliedLog) :
        LET e == AppliedLog[k]
        IN  /\ e.chordBefore = IF k = 1 THEN observedCall.chordBefore
                               ELSE AppliedLog[k - 1].chordAfter
            /\ k = Len(AppliedLog) => chordNotes = e.chordAfter
            /\ ~IsChordEdit(e.evt) => e.chordAfter = e.chordBefore

\* C27: the chord registry is changed only by chord-channel note-ons
\* (velocity > 0) and note-off-like events applied in processBlock and by
\* the transport-stop reaction: rhythm events, events of other channels,
\* chord-channel messages that are no notes, playing-state events other than
\* a stop, and configuration changes leave it as it is.
C27_ChordRegistryFrame ==
    [][ /\ (configVars' # configVars) => (chordNotes' = chordNotes)
        /\ LogKeepsChord'
        /\ (ObservedIsPlayingChangedCall /\ ~(observedCall.oldValue /\ ~observedCall.newValue)
              => chordNotes = observedCall.chordBefore)' ]_vars

\* A block of a rhythm note-on that sounds and a chord-channel controller
\* message leaves the chord as it was.
C27_Witness ==
    /\ ObservedProcessBlockCall
    /\ chordNotes # <<>>
    /\ chordNotes = observedCall.chordBefore
    /\ Len(observedCall.outputEvents) = 1
    /\ \E i \in 1..Len(observedCall.input) :
          /\ observedCall.input[i].message.ch = chordInputChannel
          /\ observedCall.input[i].message.type = "cc"

\* C28: a rhythm note-off-like event for a pitch that owns no voice emits
\* nothing and leaves the tracker and the chord registry as they are.
C28_ReleaseWithoutVoice ==
    \A k \in 1..Len(AppliedLog) :
        LET e == AppliedLog[k]
        IN  (IsRhythmRelease(e.evt) /\ ~Sounding(e.playingBefore, e.evt.message.note)) =>
              /\ e.emitted = <<>>
              /\ e.playingAfter = e.playingBefore
              /\ e.chordAfter = e.chordBefore

\* The key released owns no voice while another key does, and the chord
\* has a note for it.
C28_Witness ==
    \E k \in 1..Len(AppliedLog) :
        LET e == AppliedLog[k]
        IN  /\ IsRhythmRelease(e.evt)
            /\ ~Sounding(e.playingBefore, e.evt.message.note)
            /\ e.playingBefore # <<>>
            /\ Resolves(e.chordBefore, e.evt.message.note)
            /\ e.emitted = <<>>

\* The events of a list at one position and of one phase, in their order.
TieGroup(events, pos, phase) ==
    LET InGroup(e) == e.samplePosition = pos /\ ClaimedPhase(e) = phase
    IN  SelectSeq(events, InGroup)

\* C29: events of the same sample position and the same phase are applied
\* in their arrival order in the input buffer.  On a registry without pitch
\* 60, chord note-off(60) then note-on(60) at one position leaves 60 in the
\* chord and note-on(60) then note-off(60) leaves it out; two rhythm
\* note-ons for different keys at one position emit their note-ons in
\* arrival order.
C29_StableTieOrder ==
    ObservedProcessBlockCall =>
      LET input == observedCall.input
          applied == [k \in 1..Len(AppliedLog) |-> AppliedLog[k].evt]
          SamePosition == Len(input) = 2 /\ input[1].samplePosition = input[2].samplePosition
      IN  /\ \A pos \in SamplePositions : \A phase \in 0..3 :
                TieGroup(applied, pos, phase) = TieGroup(input, pos, phase)
          /\ ( /\ SamePosition
               /\ WithPitch(observedCall.chordBefore, 60) = {}
               /\ IsChordEdit(input[1]) /\ IsChordEdit(input[2])
               /\ input[1].message.note = 60 /\ input[2].message.note = 60
               /\ IsOffForm(input[1].message) # IsOffForm(input[2].message) )
             => (WithPitch(chordNotes, 60) # {} <=> IsOffForm(input[1].message))
          /\ ( /\ SamePosition
               /\ IsRhythmTrigger(input[1]) /\ IsRhythmTrigger(input[2])
               /\ input[1].message.note # input[2].message.note
               /\ Resolves(observedCall.chordBefore, input[1].message.note)
               /\ Resolves(observedCall.chordBefore, input[2].message.note) )
             => LET NoteOns(e) == e.message.type = "on"
                    ons == SelectSeq(observedCall.outputEvents, NoteOns)
                    FirstOn(p) == NoteOn(outputChannel,
                                         observedCall.chordBefore[SpecChordIndex(p) + 1].note
                                           + SpecOctaveOffset(p),
                                         observedCall.chordBefore[SpecChordIndex(p) + 1].vel)
                IN  /\ Len(ons) = 2
                    /\ ons[1].message = FirstOn(input[1].message.note)
                    /\ ons[2].message = FirstOn(input[2].message.note)

\* Two rhythm note-ons for different keys arrive at one position, the
\* higher key first, and both sound.
C29_Witness ==
    /\ ObservedProcessBlockCall
    /\ Len(observedCall.input) = 2
    /\ observedCall.input[1].samplePosition = observedCall.input[2].samplePosition
    /\ IsRhythmTrigger(observedCall.input[1])
    /\ IsRhythmTrigger(observedCall.input[2])
    /\ observedCall.input[1].message.note > observedCall.input[2].message.note
    /\ Len(observedCall.outputEvents) = 2
    /\ Len(playingNotes) = 2
    /\ playingNotes[1].ownerRhythmNote = observedCall.input[1].message.note

\* C30: a rhythm note-on (velocity > 0) for pitch p applied while p owns a
\* voice and the chord has no note at p's chord index removes the voice and
\* emits its note-off at the event's position, emits no note-on, and leaves
\* p without a voice.
C30_UnresolvedRetrigger ==
    \A k \in 1..Len(AppliedLog) :
        LET e == AppliedLog[k]
            p == e.evt.message.note
            Owned(v) == v.ownerRhythmNote = p
            owned == SelectSeq(e.playingBefore, Owned)
        IN  (IsRhythmTrigger(e.evt) /\ owned # <<>> /\ ~Resolves(e.chordBefore, p)) =>
              /\ e.emitted =
                   [i \in 1..Len(owned) |->
                      [message |-> [type |-> "off", ch |-> outputChannel,
                                    note |-> owned[i].message.note,
                                    vel |-> owned[i].message.vel],
                       samplePosition |-> e.evt.samplePosition]]
              /\ e.playingAfter = NotOwnedBy(e.playingBefore, p)
              /\ ~Sounding(e.playingAfter, p)

\* The key's chord note was taken out of the chord while its voice played;
\* the key is pressed again.
C30_Witness ==
    \E k \in 1..Len(AppliedLog) :
        LET e == AppliedLog[k]
            p == e.evt.message.note
        IN  /\ IsRhythmTrigger(e.evt)
            /\ Sounding(e.playingBefore, p)
            /\ ~Resolves(e.chordBefore, p)
            /\ Len(e.emitted) = 1
            /\ e.emitted[1].message.type = "off"
            /\ e.emitted[1].samplePosition = e.evt.samplePosition
            /\ ~Sounding(e.playingAfter, p)


\* How many voices of a tracker sound each of the pitches.
PitchCount(playing, pitches) ==
    [p \in pitches |->
        Cardinality({ i \in 1..Len(playing) : playing[i].message.note = p })]

\* The pitches of the voices before and after the observed call and of the
\* events it sent.
PitchesOfObservedCall(sent) ==
    { observedCall.playingBefore[i].message.note :
        i \in 1..Len(observedCall.playingBefore) }
      \cup { playingNotes[i].message.note : i \in 1..Len(playingNotes) }
      \cup { sent[i].message.note : i \in 1..Len(sent) }

\* The output pitches left with a note-on and no later note-off, each with
\* its number, when the events are sent after those counted in count.  A
\* note-off that finds no note-on before it cancels nothing.
RECURSIVE UnmatchedAfter(_, _)
UnmatchedAfter(count, events) ==
    IF events = <<>> THEN count
    ELSE LET msg == Head(events).message
             next == IF msg.ch = outputChannel /\ isNoteOn(msg)
                     THEN [count EXCEPT ![msg.note] = @ + 1]
                     ELSE IF msg.ch = outputChannel /\ isNoteOff(msg)
                     THEN [count EXCEPT ![msg.note] = IF @ > 0 THEN @ - 1 ELSE 0]
                     ELSE count
         IN  UnmatchedAfter(next, Tail(events))

\* The events a call sent to the output: the buffer processBlock leaves, the
\* buffer the transport-stop reaction leaves, nothing for any other
\* playing-state event.
SentByObservedCall ==
    IF ObservedProcessBlockCall \/ ObservedStopFlush THEN observedCall.midiBuffer
    ELSE <<>>

\* C31: no stuck notes.  With each playing-state event carrying a MIDI
\* buffer, the output pitches with a note-on and no later note-off are, with
\* their numbers, the pitches of the voices in the tracker: none at the
\* start, and every call that starts from equal numbers ends with equal
\* numbers; after a transport-stop flush there is none.
C31_NoStuckNotes ==
    (ObservedProcessBlockCall \/ (ObservedIsPlayingChangedCall /\ observedCall.hasBuffer)) =>
      LET pitches == PitchesOfObservedCall(SentByObservedCall)
          unmatched == UnmatchedAfter(PitchCount(observedCall.playingBefore, pitches),
                                      SentByObservedCall)
      IN  /\ unmatched = PitchCount(playingNotes, pitches)
          /\ ObservedStopFlush => unmatched = [p \in pitches |-> 0]

\* A block stops one of two voices and starts another one: a note-off and a
\* note-on are sent and two voices play afterwards.
C31_Witness ==
    /\ ObservedProcessBlockCall
    /\ Len(observedCall.playingBefore) = 2
    /\ Len(playingNotes) = 2
    /\ playingNotes # observedCall.playingBefore
    /\ \E i, j \in 1..Len(observedCall.midiBuffer) :
          /\ isNoteOff(observedCall.midiBuffer[i].message)
          /\ isNoteOn(observedCall.midiBuffer[j].message)
          /\ observedCall.midiBuffer[i].message.ch = outputChannel
          /\ observedCall.midiBuffer[j].message.ch = outputChannel


ObservedHostBlockCall == observedCall.op = "hostBlock"

\* C32: at the end of every PhuArpAudioProcessor::processBlock call that
\* leaves the DAW not playing, the voice tracker and the chord registry are
\* both empty.
C32_EmptyWhileNotPlaying ==
    ~isPlaying => (playingNotes = <<>> /\ chordNotes = <<>>)

\* A host block that reports the stop finds a chord and a voice and carries
\* a chord note-on and a rhythm note-on itself.
C32_Witness ==
    /\ ObservedHostBlockCall
    /\ ~isPlaying
    /\ observedCall.playingBefore # <<>>
    /\ observedCall.chordBefore # <<>>
    /\ \E i, j \in 1..Len(observedCall.input) :
          /\ IsChordEdit(observedCall.input[i])
          /\ IsRhythmTrigger(observedCall.input[j])
    /\ playingNotes = <<>>
    /\ chordNotes = <<>>


\* The host block reported the change from playing to stopped.
StopDetected ==
    /\ ObservedHostBlockCall
    /\ \E i \in 1..Len(hostBlock.calls) :
          /\ hostBlock.calls[i].call = "onIsPlayingChanged"
          /\ hostBlock.calls[i].oldValue
          /\ ~hostBlock.calls[i].newValue

\* C33: in the host block in which the change from playing to stopped is
\* detected, the buffer handed back to the host holds the flush note-offs,
\* one per voice at position 0, and nothing else; processBlock of the
\* coordinator is not called, so no input event of the block is applied or
\* passed through, whatever the pass-through switch.
C33_StopBlockOnlyFlushes ==
    StopDetected =>
      /\ observedCall.midiBuffer =
           [i \in 1..Len(observedCall.playingBefore) |->
              [message |-> [type |-> "off", ch |-> outputChannel,
                            note |-> observedCall.playingBefore[i].message.note,
                            vel |-> observedCall.playingBefore[i].message.vel],
               samplePosition |-> 0]]
      /\ \A i \in 1..Len(hostBlock.calls) : hostBlock.calls[i].call # "processBlock"
      /\ playingNotes = <<>>
      /\ chordNotes = <<>>

\* With pass-through on, the stop block carries a chord note-on and a
\* message of another channel; one voice is flushed.
C33_Witness ==
    /\ StopDetected
    /\ passThroughOtherMidi
    /\ Len(observedCall.playingBefore) = 1
    /\ Len(observedCall.midiBuffer) = 1
    /\ \E i, j \in 1..Len(observedCall.input) :
          /\ IsChordEdit(observedCall.input[i])
          /\ KeptInput(observedCall.input[j])


\* The observed call is the reaction to a change from playing to stopped,
\* with or without a MIDI buffer in the event context.
ObservedStopReaction ==
    /\ ObservedIsPlayingChangedCall
    /\ observedCall.oldValue = TRUE
    /\ observedCall.newValue = FALSE

\* The note-offs of the output channel the observed reaction wrote: those of
\* the buffer it leaves, none if the event had no buffer to write to.
FlushNoteOffsWritten ==
    LET OutputNoteOff(e) == e.message.ch = outputChannel /\ isNoteOff(e.message)
    IN  IF observedCall.hasBuffer
        THEN SelectSeq(observedCall.midiBuffer, OutputNoteOff)
        ELSE <<>>

\* C34: for every play-to-stop event the coordinator receives, with or
\* without a MIDI buffer in its context, each voice the reaction removes
\* from the tracker has its note-off written to the output.
C34_FlushNoteOffPerVoice ==
    ObservedStopReaction =>
      /\ playingNotes = <<>>
      /\ FlushNoteOffsWritten =
           [i \in 1..Len(observedCall.playingBefore) |->
              [message |-> [type |-> "off", ch |-> outputChannel,
                            note |-> observedCall.playingBefore[i].message.note,
                            vel |-> observedCall.playingBefore[i].message.vel],
               samplePosition |-> 0]]


\* The voices of a tracker that a rhythm key owns, in their order.
VoicesOwnedBy(playing, p) ==
    LET Owned(v) == v.ownerRhythmNote = p
    IN  SelectSeq(playing, Owned)

\* The note-offs among emitted events, in their order.
NoteOffsAmong(events) ==
    LET IsOff(e) == isNoteOff(e.message)
    IN  SelectSeq(events, IsOff)

\* C35: every output note-off, of a rhythm release, of a retrigger or of
\* the transport-stop flush, is sent on the MIDI channel of the note-on that
\* created the voice it stops, whatever setOutputChannel calls come between
\* the processBlock calls.
C35_NoteOffOnNoteOnChannel ==
    /\ \A k \in 1..Len(AppliedLog) :
          LET e == AppliedLog[k]
              stopped == VoicesOwnedBy(e.playingBefore, e.evt.message.note)
              offs == NoteOffsAmong(e.emitted)
          IN  (IsRhythmRelease(e.evt) \/ IsRhythmTrigger(e.evt)) =>
                /\ Len(offs) = Len(stopped)
                /\ \A i \in 1..Len(offs) : offs[i].message.ch = stopped[i].message.ch
    /\ ObservedStopFlush =>
          /\ Len(observedCall.midiBuffer) = Len(observedCall.playingBefore)
          /\ \A i \in 1..Len(observedCall.midiBuffer) :
                observedCall.midiBuffer[i].message.ch
                  = observedCall.playingBefore[i].message.ch


\* C36: every note-on processBlock emits for a rhythm note-on that resolves
\* has the pitch chord note pitch + octave offset, that pitch lies in the
\* MIDI range 0..127, and the voice recorded for it has the emitted pitch.
C36_OutputPitchInRange ==
    \A k \in 1..Len(AppliedLog) :
        LET e == AppliedLog[k]
            p == e.evt.message.note
        IN  (IsRhythmTrigger(e.evt) /\ Resolves(e.chordBefore, p)) =>
              LET outputPitch == e.chordBefore[SpecChordIndex(p) + 1].note
                                   + SpecOctaveOffset(p)
              IN  \A i \in 1..Len(e.emitted) :
                    isNoteOn(e.emitted[i].message) =>
                      /\ outputPitch \in MidiPitches
                      /\ e.emitted[i].message.note = outputPitch
                      /\ \A j \in OwnedBy(e.playingAfter, p) :
                            e.playingAfter[j].message.note = e.emitted[i].message.note


\* The other blocks that hold the events of a block, in another arrival
\* order, and differ from it only in the relative order of events of
\* different sample positions, or of different phases at one position.
Rearranged(input) ==
    LET n == Len(input)
        perms == { f \in [1..n -> 1..n] : \A i, j \in 1..n : i # j => f[i] # f[j] }
        blocks == { [i \in 1..n |-> input[f[i]]] : f \in perms }
    IN  { b \in blocks :
            /\ b # input
            /\ \A pos \in SamplePositions : \A phase \in 0..3 :
                  TieGroup(b, pos, phase) = TieGroup(input, pos, phase) }

\* What processBlock can leave for a block: the buffer handed back, the
\* generated events, the registry and the tracker.
BlockResultsOf(chord, playing, led, input, passThrough) ==
    { [buffer |-> r.buffer, out |-> r.out, chord |-> r.chord, playing |-> r.playing] :
        r \in ProcessBlockOutcomes(chord, playing, led, input, passThrough) }

\* C37: arrival-order independence.  Two blocks of the same events that
\* differ only in the relative arrival order of events of different sample
\* positions, or of different phase priority at one position, give, from the
\* same registry, tracker and configuration, the same output events and the
\* same final registry and tracker.
C37_ArrivalOrderIndependence ==
    ObservedProcessBlockCall =>
      LET results == BlockResultsOf(observedCall.chordBefore,
                                    observedCall.playingBefore,
                                    observedCall.ledgerBefore, observedCall.input,
                                    observedCall.passThrough)
      IN  \A other \in Rearranged(observedCall.input) :
              BlockResultsOf(observedCall.chordBefore, observedCall.playingBefore,
                             observedCall.ledgerBefore, other, observedCall.passThrough)
                = results

\* A rhythm note-on arrives in front of the chord note-on of its own sample
\* position; the chord was empty and the note sounds.
C37_Witness ==
    /\ ObservedProcessBlockCall
    /\ Len(observedCall.input) = 2
    /\ observedCall.input[1].samplePosition = observedCall.input[2].samplePosition
    /\ IsRhythmTrigger(observedCall.input[1])
    /\ IsChordEdit(observedCall.input[2])
    /\ observedCall.chordBefore = <<>>
    /\ Len(playingNotes) = 1
    /\ Len(observedCall.midiBuffer) = 1
    /\ Cardinality(Rearranged(observedCall.input)) = 1


\* The messages in rtFifo the handler has not yet passed to the editor.
UnreadFifo ==
    IF pc[MessageThread] = "finishedRead"
    THEN SubSeq(rtFifo, handlerLocal.ready + 1, Len(rtFifo))
    ELSE rtFifo

ElementsOf(seq) == { seq[i] : i \in 1..Len(seq) }

\* Message n is in a queue of the logger, on its way to the editor.
Queued(n) ==
    \/ n \in ElementsOf(UnreadFifo)
    \/ n \in ElementsOf(pendingMessages)
    \/ n \in ElementsOf(handlerLocal.messages)

\* The places of the editor's log that hold message n.
DeliveredAt(n) ==
    { i \in 1..Len(editorLog) : editorLog[i].kind = "message" /\ editorLog[i].n = n }

\* Every message taken so far is in one queue, or was passed to the editor
\* once, or was discarded, and never two of these; the messages of one
\* queue were passed in the order they were enqueued.
DeliveredOnceInOrder ==
    /\ \A n \in 1..logged :
          /\ Cardinality(DeliveredAt(n)) <= 1
          /\ Cardinality({ place \in {"queued", "delivered", "discarded"} :
                             \/ place = "queued" /\ Queued(n)
                             \/ place = "delivered" /\ DeliveredAt(n) # {}
                             \/ place = "discarded" /\ n \in discarded }) = 1
          /\ Cardinality({ i \in 1..Len(UnreadFifo) : UnreadFifo[i] = n })
               + Cardinality({ i \in 1..Len(pendingMessages) : pendingMessages[i] = n })
               + Cardinality({ i \in 1..Len(handlerLocal.messages) :
                                 handlerLocal.messages[i] = n }) <= 1
    /\ \A i \in 1..Len(editorLog) :
          editorLog[i].kind = "message" => editorLog[i].n \in 1..logged
    /\ \A i, j \in 1..Len(editorLog) :
          ( /\ i < j
            /\ editorLog[i].kind = "message" /\ editorLog[j].kind = "message"
            /\ editorLog[i].queue = editorLog[j].queue )
          => editorLog[i].n < editorLog[j].n

\* With an editor attached, a queue that is not empty has an update posted,
\* or the message thread is at work in the logger, or a logging thread is
\* inside requestAsyncUpdate.
NoLostWakeUp ==
    (editor /\ (UnreadFifo # <<>> \/ pendingMessages # <<>>)) =>
      \/ updatePosted
      \/ pc[MessageThread] # "idle"
      \/ \E t \in LoggingThreads : pc[t] \in {"exchange", "trigger"}

RECURSIVE DroppedReported(_)
DroppedReported(lines) ==
    IF lines = <<>> THEN 0
    ELSE (IF Head(lines).kind = "dropped" THEN Head(lines).n ELSE 0)
           + DroppedReported(Tail(lines))

\* The thread marked as the audio thread is outside the locked scope.
MarkedThreadTakesNoLock ==
    audioThreadId # NoThread =>
      /\ nonRealtimeLock # audioThreadId
      /\ pc[audioThreadId] \notin {"lock", "add"}

\* Each discarded message is counted once: in the counter or in one marker.
DropsAccounted ==
    Cardinality(discarded) = rtDroppedMessages + DroppedReported(editorLog)

\* A pushRealtime step that finds no free slot.
OverflowStep ==
    ( /\ audioThreadId # NoThread
      /\ pc[audioThreadId] = "pushRealtime"
      /\ pc'[audioThreadId] # "pushRealtime"
      /\ Len(rtFifo) >= MaxRealtimeQueued )
    => /\ rtDroppedMessages' = rtDroppedMessages + 1
       /\ rtFifo' = rtFifo
       /\ pendingMessages' = pendingMessages
       /\ editorLog' = editorLog
       /\ nonRealtimeLock' = nonRealtimeLock

\* The handler's step that reports the dropped messages.
ReportStep ==
    (pc[MessageThread] = "dropped" /\ pc'[MessageThread] # "dropped")
    => /\ rtDroppedMessages' = 0
       /\ editorLog' = IF rtDroppedMessages > 0
                       THEN Append(editorLog, DroppedLine(rtDroppedMessages))
                       ELSE editorLog

\* C39: EditorLogger overflow.  logMessage on the marked audio thread never
\* takes the non-realtime lock; when rtFifo has no free slot the message is
\* discarded and the dropped counter goes up by exactly one; the next
\* handleAsyncUpdate that runs with an editor attached reports the
\* accumulated count once and resets it to zero.
C39_LoggerOverflow ==
    /\ [](MarkedThreadTakesNoLock /\ DropsAccounted)
    /\ [][OverflowStep /\ ReportStep]_vars
    /\ (rtDroppedMessages > 0 /\ editor) ~> (rtDroppedMessages = 0 \/ ~editor)

\* Two messages were discarded and one marker reports both.
C39_Witness ==
    /\ Cardinality(discarded) = 2
    /\ rtDroppedMessages = 0
    /\ \E i \in 1..Len(editorLog) : editorLog[i] = DroppedLine(2)
    /\ audioThreadId = AudioThread

====
